---- MODULE Spec2Model ----
(***************************************************************************)
(* The persistent watcher subsystem of src/src/automation: the pixel       *)
(* watcher (pixel_watcher.py) and the template watcher                     *)
(* (transparent_vision.py) with their managers, as a state machine.  The   *)
(* two watcher classes share their fields and their start, stop and loop  *)
(* code; a watcher's event_type tells which class it is.                   *)
(*                                                                         *)
(* A watcher object is one index of the per-object sequences config,       *)
(* running, thread, trigger_count, last_trigger_time, last_known_color.    *)
(* A polling thread is one index of thr.  A thread's step runs from one    *)
(* blocking call of _watch_loop to the next: the loop test with            *)
(* _should_check, the return of get_pixel_color with the check and the     *)
(* trigger bookkeeping, the return of the callback with the trigger_once   *)
(* stop, the end of sleep, and the finally clause.  The application is one *)
(* control thread (ctl) that calls the manager; it blocks only in          *)
(* Thread.join(timeout=1.0).  Time is an integer clock; time.time() is     *)
(* far from 0.0, so the clock starts at Epoch.                             *)
(***************************************************************************)
EXTENDS Integers, Sequences, FiniteSets, TLC

VARIABLES
    now,                \* time.time()
    watchers,           \* PixelWatcherManager.watchers: name -> object (0: no key)
    global_callbacks,   \* PixelWatcherManager.global_callbacks
    config,             \* watcher.config, per object
    running,            \* watcher.running
    thread,             \* watcher.thread (0: None)
    trigger_count,      \* watcher.trigger_count
    last_trigger_time,  \* watcher.last_trigger_time
    last_known_color,   \* watcher.last_known_color (NoColor: None)
    thr,                \* the polling threads created by start()
    ctl,                \* the control thread: idle, or inside stop()'s join
    removed,            \* per object: remove_watcher has deleted its key
    template_present,   \* watcher.template_present (template watchers)
    last_match,         \* watcher.last_match (NoMatch: None)
    observed,           \* per object: the polls handled so far, in order
    returned,           \* what the last get_watcher_status call returned
    capture,            \* ScreenCapture: the mss handles and _local.sct
    matcher,            \* template_cache, template_masks and the lookups
    probe,              \* a call of a pure helper: its arguments and result
    screen              \* what is on the screen: the best match of the template

vars == <<now, watchers, global_callbacks, config, running, thread,
          trigger_count, last_trigger_time, last_known_color, thr, ctl,
          removed, template_present, last_match, observed, returned,
          capture, matcher, probe, screen>>

\* The fields only a template watcher has, with the record of its polls.
tvars == <<template_present, last_match, observed>>

-----------------------------------------------------------------------------
\* Bounds of the model.
MaxTicks == 2
ShortTicks == 1
MaxWatchers == 2
MaxThreads == 2
MaxGlobals == 2
MaxPolls == 4
PollTicks == 3
MovementThreshold == 15
MaxHandles == 2
MaxLookups == 2
MaxKeys == 3
CooldownC == 2

\* Program constants.
JoinTimeout == 1
DefaultTolerance == 10
DefaultMinChange == 10
DefaultMovementThreshold == 10
\* Confidences and thresholds are in hundredths: 80 is 0.8.
DefaultThreshold == 80
match_threshold == 80
CheckInterval == 1

Epoch == CooldownC + 1
MaxTime == Epoch + MaxTicks
ShortTime == Epoch + ShortTicks
PollTime == Epoch + PollTicks

Names == {"a"}
NoWatcher == 0
NoThread == 0
NoColor == <<>>
NoMatch == <<>>
NoStatus == [name |-> ""]
NoHandle == 0
NoProbe == [color1 |-> <<>>, color2 |-> <<>>, tolerance |-> 0, done |-> FALSE, match |-> FALSE, swapped |-> FALSE]
NoLookup == [pc |-> "out", template |-> FALSE, mask |-> FALSE, cached |-> FALSE, n |-> 0]
Keys == {"a", "b"}

\* Screen colours a sample can return. Black is also what get_pixel_color
\* returns when the capture fails.
Black == <<0, 0, 0>>
Red == <<20, 0, 0>>
Dim == <<0, 5, 0>>
Grey == <<5, 5, 5>>
Colors == {Black, Red, Dim, Grey}

COLOR_MATCH == "color_match"
COLOR_CHANGE == "color_change"
TEMPLATE_FOUND == "template_found"
TEMPLATE_LOST == "template_lost"
TEMPLATE_MOVED == "template_moved"
TemplateEvents == {TEMPLATE_FOUND, TEMPLATE_LOST, TEMPLATE_MOVED}

\* What find_on_screen returns: None (NoMatch), or a match with its centre.
P1 == [center |-> <<100, 100>>]
P2 == [center |-> <<120, 100>>]
P3 == [center |-> <<110, 100>>]
Matches == {P1, P2}

\* The screen before anything is shown: the template matches nowhere.
BlankScreen == [confidence |-> 0, center |-> <<0, 0>>]

UserCallbacks == {[id |-> "user", raises |-> FALSE], [id |-> "user", raises |-> TRUE]}
GlobalCallbacks == {[id |-> "g1", raises |-> FALSE], [id |-> "g2", raises |-> TRUE]}

NoEvent == [trigger_count |-> 0, current_color |-> NoColor,
            previous_color |-> NoColor, watcher_id |-> NoWatcher]

Objects == 1..Len(config)
Threads == 1..Len(thr)

Abs(x) == IF x < 0 THEN -x ELSE x

-----------------------------------------------------------------------------
\* Pure helpers of PersistentPixelWatcher.

\* A match that compares without abs().
_colors_match_signed(color1, color2, tolerance) ==
    \A i \in 1..3 : color1[i] - color2[i] <= tolerance

_colors_match(color1, color2, tolerance) ==
    \A i \in 1..3 : Abs(color1[i] - color2[i]) <= tolerance

color_diff(a, b) == Abs(a[1] - b[1]) + Abs(a[2] - b[2]) + Abs(a[3] - b[3])

_should_check(w) ==
    IF config[w].cooldown <= 0 THEN TRUE
    ELSE now - last_trigger_time[w] >= config[w].cooldown

is_alive(t) == t # NoThread /\ thr[t].pc # "done"

\* The threads start() has created for watcher w.
NumThreads(w) == Cardinality({t \in Threads : thr[t].w = w})

PixelWatcherConfig(name, event_type, callback, target_color, min_change, cooldown, trigger_once) ==
    [name |-> name, event_type |-> event_type, callback |-> callback,
     target_color |-> target_color, tolerance |-> DefaultTolerance,
     min_change |-> min_change, check_interval |-> CheckInterval,
     cooldown |-> cooldown, trigger_once |-> trigger_once, enabled |-> TRUE]

TemplateWatcherConfig(name, event_type, callback, threshold, cooldown, trigger_once, movement_threshold) ==
    [name |-> name, event_type |-> event_type, callback |-> callback,
     threshold |-> threshold, check_interval |-> CheckInterval, cooldown |-> cooldown,
     trigger_once |-> trigger_once,
     movement_threshold |-> movement_threshold, enabled |-> TRUE]

\* ScreenCapture._local: one attribute slot per thread (threading.local).
\* Thread 0 is the thread of the application, t > 0 polling thread t.
\* A ScreenCapture that keeps its mss instance in a plain attribute.
sct_slot_shared(tid) == 0

sct_slot(tid) == tid

\* ScreenCapture._get_sct called by thread tid: a new mss handle if the
\* slot of the thread holds none.
_get_sct(c, tid) ==
    IF c.local[sct_slot(tid)] = NoHandle
    THEN [handles |-> Append(c.handles,
                             [creator |-> tid, open |-> TRUE, users |-> {}]),
          local |-> [c.local EXCEPT ![sct_slot(tid)] = Len(c.handles) + 1]]
    ELSE c

\* ScreenCapture.capture_screen called by thread tid: sct.grab on the
\* handle _get_sct returns.
capture_screen(c, tid) ==
    LET d == _get_sct(c, tid) IN
    [d EXCEPT !.handles[d.local[sct_slot(tid)]].users = @ \cup {tid}]

\* ScreenCapture.cleanup called by thread tid: closes the handle in the
\* slot of the calling thread, if there is one.
cleanup(c, tid) ==
    IF c.local[sct_slot(tid)] # NoHandle
    THEN [handles |-> [c.handles EXCEPT ![c.local[sct_slot(tid)]].open = FALSE],
          local |-> [c.local EXCEPT ![sct_slot(tid)] = NoHandle]]
    ELSE c

\* The end of PersistentTemplateWatcher.stop, reached by thread tid when
\* the join is over or was not entered: screen_capture.cleanup(). The stop
\* of a pixel watcher has no such call.
stop_cleanup(w, tid, reached) ==
    IF reached /\ config[w].event_type \in TemplateEvents
    THEN cleanup(capture, tid)
    ELSE capture

\* A fan-out that ends at the first global callback that raises.
wrapped_calls_abort(w) ==
    IF config[w].callback.raises THEN <<config[w].callback>>
    ELSE <<config[w].callback>> \o
         SubSeq(global_callbacks, 1,
                IF \E i \in 1..Len(global_callbacks) : global_callbacks[i].raises
                THEN CHOOSE i \in 1..Len(global_callbacks) :
                        /\ global_callbacks[i].raises
                        /\ \A j \in 1..(i - 1) : ~global_callbacks[j].raises
                ELSE Len(global_callbacks))

\* wrapped_callback: the user callback first; if it returns, every global
\* callback in list order, each in its own try/except.
wrapped_calls(w) ==
    IF config[w].callback.raises THEN <<config[w].callback>>
    ELSE <<config[w].callback>> \o global_callbacks

-----------------------------------------------------------------------------
Constructed ==
    /\ now = Epoch
    /\ watchers = [n \in Keys |-> NoWatcher]
    /\ global_callbacks = <<>>
    /\ config = <<>>
    /\ running = <<>>
    /\ thread = <<>>
    /\ trigger_count = <<>>
    /\ last_trigger_time = <<>>
    /\ last_known_color = <<>>
    /\ thr = <<>>
    /\ ctl = [op |-> "idle", name |-> "", w |-> NoWatcher, deadline |-> 0,
              rest |-> {}]
    /\ removed = <<>>
    /\ template_present = <<>>
    /\ last_match = <<>>
    /\ observed = <<>>
    /\ returned = NoStatus
    /\ capture = [handles |-> <<>>, local |-> [i \in 0..MaxThreads |-> NoHandle]]
    /\ matcher = [template_cache |-> FALSE, template_masks |-> FALSE,
                  alpha |-> "unknown", look |-> [i \in 1..MaxThreads |-> NoLookup]]
    /\ screen = BlankScreen

Init == Constructed /\ probe = NoProbe

Idle == [op |-> "idle", name |-> "", w |-> NoWatcher, deadline |-> 0,
         rest |-> {}]

Tick(maxt) ==
    /\ now < maxt
    /\ now' = now + 1
    /\ UNCHANGED <<watchers, global_callbacks, config, running, thread,
                   trigger_count, last_trigger_time, last_known_color, thr,
                   ctl, removed>>
    /\ UNCHANGED <<tvars, returned, capture, matcher, probe, screen>>

\* Time goes on past the horizon maxt while a join waits for its timeout
\* or the thread of a stopped watcher sleeps towards its last loop test.
TickJoin(maxt) ==
    /\ now >= maxt
    /\ \/ ctl.w # NoWatcher /\ now < ctl.deadline
       \/ \E t \in Threads : thr[t].pc = "join" /\ now < thr[t].wake
       \/ \E t \in Threads : /\ thr[t].pc = "loop" /\ now < thr[t].wake
                              /\ ~running[thr[t].w]
    /\ now' = now + 1
    /\ UNCHANGED <<watchers, global_callbacks, config, running, thread,
                   trigger_count, last_trigger_time, last_known_color, thr,
                   ctl, removed>>
    /\ UNCHANGED <<tvars, returned, capture, matcher, probe, screen>>

-----------------------------------------------------------------------------
\* The polling thread: PersistentPixelWatcher._watch_loop and what it calls.

\* A new iteration of the loop: the locals of the last one are dead.
Fresh(r) ==
    [r EXCEPT !.current_color = NoColor, !.match = NoMatch, !.calls = <<>>,
              !.failed = FALSE]

\* time.sleep(check_interval), then back to the loop test; a negative
\* interval makes time.sleep raise, which ends the loop through finally.
Sleep(r) ==
    IF config[r.w].check_interval < 0
    THEN [Fresh(r) EXCEPT !.pc = "finally", !.event_data = NoEvent]
    ELSE [r EXCEPT !.pc = "loop", !.event_data = NoEvent,
                   !.wake = now + config[r.w].check_interval]

\* A change check that keeps the baseline of construction.
AfterTrigger_keep(t) == last_known_color

\* What follows _trigger_event in the poll: _check_color_change moves the
\* baseline to the current sample; then the loop sleeps.
AfterTrigger(t) ==
    LET w == thr[t].w IN
    IF config[w].event_type = COLOR_CHANGE
    THEN [last_known_color EXCEPT ![w] = thr[t].current_color]
    ELSE last_known_color

\* What follows _trigger_event in _handle_template_moved: the watcher
\* takes the match of this poll as its last match.
AfterMovedPresent(t) ==
    IF config[thr[t].w].event_type = TEMPLATE_MOVED
    THEN [template_present EXCEPT ![thr[t].w] = TRUE]
    ELSE template_present

AfterMovedMatch(t) ==
    IF config[thr[t].w].event_type = TEMPLATE_MOVED
    THEN [last_match EXCEPT ![thr[t].w] = thr[t].match]
    ELSE last_match

\* A loop whose while test looks at running only.
_watch_loop_blind(t) ==
    /\ t \in Threads
    /\ thr[t].pc = "loop"
    /\ now >= thr[t].wake
    /\ LET w == thr[t].w IN
       thr' = [thr EXCEPT ![t] =
                 IF running[w]
                 THEN IF _should_check(w)
                      THEN [Fresh(@) EXCEPT !.pc = "sampling"]
                      ELSE Sleep(Fresh(@))
                 ELSE [Fresh(@) EXCEPT !.pc = "finally"]]
    /\ UNCHANGED <<now, watchers, global_callbacks, config, running, thread,
                   trigger_count, last_trigger_time, last_known_color, ctl, removed>>
    /\ UNCHANGED <<tvars, returned, capture, matcher, probe, screen>>

\* The while test of _watch_loop, reached at thread start and after each
\* sleep, with the _should_check cooldown gate that follows it.
_watch_loop(t) ==
    /\ t \in Threads
    /\ thr[t].pc = "loop"
    /\ now >= thr[t].wake
    /\ LET w == thr[t].w IN
       thr' = [thr EXCEPT ![t] =
                 IF running[w] /\ config[w].enabled
                 THEN IF _should_check(w)
                      THEN [Fresh(@) EXCEPT !.pc = "sampling"]
                      ELSE Sleep(Fresh(@))
                 ELSE [Fresh(@) EXCEPT !.pc = "finally"]]
    /\ UNCHANGED <<now, watchers, global_callbacks, config, running, thread,
                   trigger_count, last_trigger_time, last_known_color, ctl, removed>>
    /\ UNCHANGED <<tvars, returned, capture, matcher, probe, screen>>

\* Whether the sample c makes the watcher fire: _check_color_match and
\* _check_color_change.
Qualifies(w, c) ==
    IF config[w].event_type = COLOR_MATCH
    THEN /\ config[w].target_color # NoColor
         /\ _colors_match(c, config[w].target_color, config[w].tolerance)
    ELSE /\ last_known_color[w] # NoColor
         /\ color_diff(last_known_color[w], c) >= config[w].min_change

\* A trigger that does its bookkeeping only for a callback that returns.
_trigger_event_onreturn(t, c) ==
    LET w == thr[t].w IN
    /\ trigger_count' = IF config[w].callback.raises THEN trigger_count
                        ELSE [trigger_count EXCEPT ![w] = @ + 1]
    /\ last_trigger_time' = IF config[w].callback.raises THEN last_trigger_time
                            ELSE [last_trigger_time EXCEPT ![w] = now]
    /\ thr' = [thr EXCEPT ![t] =
                 [@ EXCEPT !.pc = "callback", !.current_color = c,
                           !.event_data =
                              [trigger_count |-> trigger_count[w] + 1,
                               current_color |-> c,
                               previous_color |->
                                  IF config[w].event_type = COLOR_CHANGE
                                  THEN last_known_color[w] ELSE NoColor,
                               watcher_id |-> w]]]
    /\ UNCHANGED last_known_color

\* _trigger_event up to the call of the callback: the bookkeeping.
_trigger_event(t, c) ==
    LET w == thr[t].w IN
    /\ trigger_count' = [trigger_count EXCEPT ![w] = @ + 1]
    /\ last_trigger_time' = [last_trigger_time EXCEPT ![w] = now]
    /\ thr' = [thr EXCEPT ![t] =
                 [@ EXCEPT !.pc = "callback", !.current_color = c,
                           !.event_data =
                              [trigger_count |-> trigger_count[w] + 1,
                               current_color |-> c,
                               previous_color |->
                                  IF config[w].event_type = COLOR_CHANGE
                                  THEN last_known_color[w] ELSE NoColor,
                               watcher_id |-> w]]]
    /\ UNCHANGED last_known_color

\* pyautogui.pixel raises inside get_pixel_color: the except clause is
\* entered, and get_pixel_color will return (0, 0, 0).
get_pixel_color_except(t) ==
    /\ t \in Threads
    /\ thr[t].pc = "sampling"
    /\ config[thr[t].w].event_type \notin TemplateEvents
    /\ ~thr[t].failed
    /\ thr' = [thr EXCEPT ![t].failed = TRUE]
    /\ UNCHANGED <<now, watchers, global_callbacks, config, running, thread,
                   trigger_count, last_trigger_time, last_known_color, ctl,
                   removed, tvars, returned, capture, matcher, probe, screen>>

\* The capture or the matching raises inside find_on_screen, or the capture
\* returns an empty image: find_on_screen will return None.
find_on_screen_except(t) ==
    /\ t \in Threads
    /\ thr[t].pc = "sampling"
    /\ config[thr[t].w].event_type \in TemplateEvents
    /\ ~thr[t].failed
    /\ thr' = [thr EXCEPT ![t].failed = TRUE]
    /\ UNCHANGED <<now, watchers, global_callbacks, config, running, thread,
                   trigger_count, last_trigger_time, last_known_color, ctl,
                   removed, tvars, returned, capture, matcher, probe, screen>>

\* get_pixel_color returns c; the check for the watcher's event type runs.
get_pixel_color(t, c) ==
    /\ t \in Threads
    /\ thr[t].pc = "sampling"
    /\ config[thr[t].w].event_type \notin TemplateEvents
    /\ thr[t].failed => c = Black
    /\ LET w == thr[t].w IN
       IF Qualifies(w, c)
       THEN _trigger_event(t, c)
       ELSE /\ thr' = [thr EXCEPT ![t] = Sleep([@ EXCEPT !.current_color = c])]
            /\ last_known_color' =
                  IF config[w].event_type = COLOR_CHANGE
                     /\ last_known_color[w] = NoColor
                  THEN [last_known_color EXCEPT ![w] = c]
                  ELSE last_known_color
            /\ UNCHANGED <<trigger_count, last_trigger_time>>
    /\ UNCHANGED <<now, watchers, global_callbacks, config, running, thread,
                   ctl, removed>>
    /\ UNCHANGED <<tvars, returned, capture, matcher, probe, screen>>

\* A join that also waits when the thread to join is the current thread.
SelfStopJoins_any(t) == is_alive(thread[thr[t].w])

\* Whether thread.join(timeout=1.0) in a stop() called by polling thread t
\* blocks: joining the current thread raises RuntimeError at once.
SelfStopJoins(t) == is_alive(thread[thr[t].w]) /\ thread[thr[t].w] # t

\* The callback returns or raises; _trigger_event then stops a trigger_once
\* watcher unless the callback raised. stop() from the polling thread:
\* joining the current thread raises RuntimeError, which _trigger_event
\* catches; joining another live thread blocks.
callback_return(t) ==
    /\ t \in Threads
    /\ thr[t].pc = "callback"
    /\ LET w == thr[t].w
           calls == wrapped_calls(w)
           called == [thr[t] EXCEPT !.calls =
                        [i \in 1..Len(calls) |->
                            [cb |-> calls[i], event |-> thr[t].event_data]]]
           selfstop == /\ ~config[w].callback.raises
                       /\ config[w].trigger_once
                       /\ running[w]
           joins == selfstop /\ SelfStopJoins(t)
       IN
       /\ running' = IF selfstop THEN [running EXCEPT ![w] = FALSE]
                     ELSE running
       /\ IF joins
          THEN /\ thr' = [thr EXCEPT ![t] =
                           [called EXCEPT !.pc = "join", !.join = thread[w],
                                          !.wake = now + JoinTimeout]]
               /\ UNCHANGED <<last_known_color, template_present, last_match>>
          ELSE /\ thr' = [thr EXCEPT ![t] = Sleep(called)]
               /\ last_known_color' = AfterTrigger(t)
               /\ template_present' = AfterMovedPresent(t)
               /\ last_match' = AfterMovedMatch(t)
       /\ capture' = stop_cleanup(w, t, selfstop /\ ~is_alive(thread[w]))
    /\ UNCHANGED <<now, watchers, global_callbacks, config, thread,
                   trigger_count, last_trigger_time, ctl, removed>>
    /\ UNCHANGED <<observed, returned, matcher, probe, screen>>

\* The join of stop() called from a polling thread returns.
self_join_return(t) ==
    /\ t \in Threads
    /\ thr[t].pc = "join"
    /\ ~is_alive(thr[t].join) \/ now >= thr[t].wake
    /\ thr' = [thr EXCEPT ![t] = Sleep([@ EXCEPT !.join = NoThread])]
    /\ last_known_color' = AfterTrigger(t)
    /\ template_present' = AfterMovedPresent(t)
    /\ last_match' = AfterMovedMatch(t)
    /\ capture' = stop_cleanup(thr[t].w, t, TRUE)
    /\ UNCHANGED <<now, watchers, global_callbacks, config, running, thread,
                   trigger_count, last_trigger_time, ctl, removed>>
    /\ UNCHANGED <<observed, returned, matcher, probe, screen>>

\* The finally clause of _watch_loop.
watch_loop_finally(t) ==
    /\ t \in Threads
    /\ thr[t].pc = "finally"
    /\ running' = [running EXCEPT ![thr[t].w] = FALSE]
    /\ thr' = [thr EXCEPT ![t] = [Fresh(@) EXCEPT !.pc = "done", !.wake = 0]]
    /\ UNCHANGED <<now, watchers, global_callbacks, config, thread,
                   trigger_count, last_trigger_time, last_known_color, ctl, removed>>
    /\ UNCHANGED <<tvars, returned, capture, matcher, probe, screen>>

-----------------------------------------------------------------------------
\* The polling thread of a template watcher: PersistentTemplateWatcher.
\* Its _watch_loop, _should_check and finally are those of the pixel
\* watcher; the call that blocks is find_on_screen.

\* A distance that looks at the vertical offset only.
Dist2_vertical(p, q) == (p[2] - q[2]) * (p[2] - q[2])

\* (old_center - new_center) squared, for the distance of _handle_template_moved.
Dist2(p, q) == (p[1] - q[1]) * (p[1] - q[1]) + (p[2] - q[2]) * (p[2] - q[2])

\* A template watcher that is level-triggered: found fires on every poll
\* that finds the template.
Fires_level(w, m) ==
    CASE config[w].event_type = TEMPLATE_FOUND -> m # NoMatch
      [] config[w].event_type = TEMPLATE_LOST ->
            m = NoMatch /\ template_present[w]
      [] config[w].event_type = TEMPLATE_MOVED ->
            /\ m # NoMatch
            /\ last_match[w] # NoMatch
            /\ Dist2(last_match[w].center, m.center)
                  >= config[w].movement_threshold * config[w].movement_threshold

\* Whether the poll that observes m calls _trigger_event.
Fires(w, m) ==
    CASE config[w].event_type = TEMPLATE_FOUND ->
            m # NoMatch /\ ~template_present[w]
      [] config[w].event_type = TEMPLATE_LOST ->
            m = NoMatch /\ template_present[w]
      [] config[w].event_type = TEMPLATE_MOVED ->
            /\ m # NoMatch
            /\ last_match[w] # NoMatch
            /\ Dist2(last_match[w].center, m.center)
                  >= config[w].movement_threshold * config[w].movement_threshold

\* Handlers that write template_present and last_match only on the polls
\* that fire.
Updates_onfire(w, m) ==
    CASE config[w].event_type = TEMPLATE_FOUND -> Fires(w, m)
      [] config[w].event_type = TEMPLATE_LOST -> Fires(w, m)
      [] config[w].event_type = TEMPLATE_MOVED -> ~Fires(w, m)

\* A moved handler that keeps the match it last compared against until an
\* event fires or the template is lost.
Updates_anchored(w, m) ==
    CASE config[w].event_type = TEMPLATE_FOUND ->
            (m # NoMatch) # template_present[w]
      [] config[w].event_type = TEMPLATE_LOST ->
            (m # NoMatch) # template_present[w]
      [] config[w].event_type = TEMPLATE_MOVED ->
            m = NoMatch \/ last_match[w] = NoMatch

\* A moved handler that remembers the last match over polls that do not
\* find the template.
Updates_remember(w, m) ==
    CASE config[w].event_type = TEMPLATE_FOUND ->
            (m # NoMatch) # template_present[w]
      [] config[w].event_type = TEMPLATE_LOST ->
            (m # NoMatch) # template_present[w]
      [] config[w].event_type = TEMPLATE_MOVED ->
            m # NoMatch /\ ~Fires(w, m)

\* Whether _handle_template_* writes template_present and last_match before
\* it returns or calls _trigger_event.
Updates(w, m) ==
    CASE config[w].event_type = TEMPLATE_FOUND ->
            (m # NoMatch) # template_present[w]
      [] config[w].event_type = TEMPLATE_LOST ->
            (m # NoMatch) # template_present[w]
      [] config[w].event_type = TEMPLATE_MOVED ->
            ~Fires(w, m)

\* find_best_match_with_mask and ImageMatcher.find_best_match: the best
\* match on the screen, when its confidence reaches the threshold of the
\* matcher; find_on_screen returns it.
find_best_match_with_mask(scr) ==
    IF scr.confidence >= match_threshold
    THEN [center |-> scr.center]
    ELSE NoMatch

\* find_on_screen returns m; _check_template runs the handler of the
\* watcher's event type up to the call of _trigger_event, with the event
\* record built for it.
_check_template(t, m) ==
    /\ t \in Threads
    /\ thr[t].pc = "sampling"
    /\ config[thr[t].w].event_type \in TemplateEvents
    /\ thr[t].failed => m = NoMatch
    /\ Len(observed[thr[t].w]) < MaxPolls
    /\ LET w == thr[t].w IN
       /\ template_present' =
             IF Updates(w, m)
             THEN [template_present EXCEPT ![w] = (m # NoMatch)]
             ELSE template_present
       /\ last_match' =
             IF Updates(w, m) THEN [last_match EXCEPT ![w] = m] ELSE last_match
       /\ observed' = [observed EXCEPT ![w] =
                          Append(@, [match |-> m, fired |-> Fires(w, m)])]
       /\ thr' = [thr EXCEPT ![t] =
             IF Fires(w, m)
             THEN [@ EXCEPT !.pc = "trigger", !.match = m,
                            !.event_data =
                               [trigger_count |-> trigger_count[w] + 1,
                                match |-> m,
                                previous_match |->
                                   IF config[w].event_type = TEMPLATE_MOVED
                                   THEN last_match[w] ELSE NoMatch,
                                watcher_id |-> w]]
             ELSE Sleep([@ EXCEPT !.match = m])]
    /\ capture' = IF thr[t].failed THEN capture ELSE capture_screen(capture, t)
    /\ UNCHANGED <<now, watchers, global_callbacks, config, running, thread,
                   trigger_count, last_trigger_time, last_known_color, ctl,
                   removed, returned, matcher, probe, screen>>

\* PersistentTemplateWatcher._trigger_event up to the call of the callback.
template_trigger_event(t) ==
    /\ t \in Threads
    /\ thr[t].pc = "trigger"
    /\ LET w == thr[t].w IN
       /\ trigger_count' = [trigger_count EXCEPT ![w] = @ + 1]
       /\ last_trigger_time' = [last_trigger_time EXCEPT ![w] = now]
       /\ thr' = [thr EXCEPT ![t].pc = "callback"]
    /\ UNCHANGED <<now, watchers, global_callbacks, config, running, thread,
                   last_known_color, ctl, removed, tvars, returned, capture, matcher, probe, screen>>

-----------------------------------------------------------------------------
\* The control thread: PixelWatcherManager and the watcher's start and stop.

\* PersistentPixelWatcher.__init__ and self.watchers[name] = watcher. c0 is
\* the colour sampled for the baseline of a change watcher, else NoColor.
NewWatcher(cfg, c0) ==
    /\ config' = Append(config, cfg)
    /\ running' = Append(running, FALSE)
    /\ thread' = Append(thread, NoThread)
    /\ last_trigger_time' = Append(last_trigger_time, 0)
    /\ trigger_count' = Append(trigger_count, 0)
    /\ last_known_color' = Append(last_known_color, c0)
    /\ removed' = Append(removed, FALSE)
    /\ template_present' = Append(template_present, FALSE)
    /\ last_match' = Append(last_match, NoMatch)
    /\ observed' = Append(observed, <<>>)
    /\ watchers' = [watchers EXCEPT ![cfg.name] = Len(config) + 1]

add_color_watcher(name, callback, cooldown, trigger_once) ==
    /\ ctl.op = "idle"
    /\ Len(config) < MaxWatchers
    /\ NewWatcher(PixelWatcherConfig(name, COLOR_MATCH, callback, Red,
                                     DefaultMinChange, cooldown, trigger_once),
                  NoColor)
    /\ UNCHANGED <<now, global_callbacks, thr, ctl, returned, capture, matcher, probe, screen>>

add_change_watcher(name, callback, cooldown, trigger_once, c0) ==
    /\ ctl.op = "idle"
    /\ Len(config) < MaxWatchers
    /\ NewWatcher(PixelWatcherConfig(name, COLOR_CHANGE, callback, NoColor,
                                     DefaultMinChange, cooldown, trigger_once),
                  c0)
    /\ UNCHANGED <<now, global_callbacks, thr, ctl, returned, capture, matcher, probe, screen>>

add_template_watcher(name, event_type, callback, threshold, cooldown, trigger_once, movement_threshold) ==
    /\ ctl.op = "idle"
    /\ Len(config) < MaxWatchers
    /\ NewWatcher(TemplateWatcherConfig(name, event_type, callback, threshold, cooldown,
                                        trigger_once, movement_threshold),
                  NoColor)
    /\ UNCHANGED <<now, global_callbacks, thr, ctl, returned, capture, matcher, probe, screen>>

\* The watcher object add_*_watcher has stored is started at once: the
\* start_watcher(watcher_name) of watch_* with auto_start, on an object whose
\* running is False.
NewWatcherStarted(cfg, c0) ==
    /\ Len(thr) < MaxThreads
    /\ config' = Append(config, cfg)
    /\ running' = Append(running, TRUE)
    /\ thread' = Append(thread, Len(thr) + 1)
    /\ last_trigger_time' = Append(last_trigger_time, 0)
    /\ trigger_count' = Append(trigger_count, 0)
    /\ last_known_color' = Append(last_known_color, c0)
    /\ removed' = Append(removed, FALSE)
    /\ template_present' = Append(template_present, FALSE)
    /\ last_match' = Append(last_match, NoMatch)
    /\ observed' = Append(observed, <<>>)
    /\ watchers' = [watchers EXCEPT ![cfg.name] = Len(config) + 1]
    /\ thr' = Append(thr, [w |-> Len(config) + 1, pc |-> "loop", wake |-> now,
                           current_color |-> NoColor,
                           match |-> NoMatch,
                           event_data |-> NoEvent, calls |-> <<>>,
                           join |-> NoThread, failed |-> FALSE])

\* A watch_pixel_color that leaves the start to the caller.
watch_pixel_color_nostart(name, callback, tolerance, check_interval, cooldown, trigger_once, auto_start) ==
    /\ ctl.op = "idle"
    /\ Len(config) < MaxWatchers
    /\ NewWatcher([PixelWatcherConfig(name, COLOR_MATCH, callback, Red,
                                      DefaultMinChange, cooldown, trigger_once)
                      EXCEPT !.tolerance = tolerance,
                             !.check_interval = check_interval],
                  NoColor)
    /\ UNCHANGED <<now, global_callbacks, thr, ctl, returned, capture, matcher, probe, screen>>

\* EnhancedVisionController.watch_pixel_color: add_color_watcher with the
\* arguments as they are, then start_watcher if auto_start.
watch_pixel_color(name, callback, tolerance, check_interval, cooldown, trigger_once, auto_start) ==
    /\ ctl.op = "idle"
    /\ Len(config) < MaxWatchers
    /\ LET cfg == [PixelWatcherConfig(name, COLOR_MATCH, callback, Red,
                                      DefaultMinChange, cooldown, trigger_once)
                      EXCEPT !.tolerance = tolerance,
                             !.check_interval = check_interval]
       IN IF auto_start
          THEN NewWatcherStarted(cfg, NoColor)
          ELSE NewWatcher(cfg, NoColor) /\ UNCHANGED thr
    /\ UNCHANGED <<now, global_callbacks, ctl, returned, capture, matcher, probe, screen>>

\* TransparentVisionController.watch_template_found: add_template_watcher,
\* then start_watcher if auto_start.
watch_template_found(name, callback, check_interval, cooldown, trigger_once, auto_start) ==
    /\ ctl.op = "idle"
    /\ Len(config) < MaxWatchers
    /\ LET cfg == [TemplateWatcherConfig(name, TEMPLATE_FOUND, callback,
                                         DefaultThreshold, cooldown, trigger_once,
                                         DefaultMovementThreshold)
                      EXCEPT !.check_interval = check_interval]
       IN IF auto_start
          THEN NewWatcherStarted(cfg, NoColor)
          ELSE NewWatcher(cfg, NoColor) /\ UNCHANGED thr
    /\ UNCHANGED <<now, global_callbacks, ctl, returned, capture, matcher, probe, screen>>

add_global_callback(callback) ==
    /\ ctl.op = "idle"
    /\ Len(global_callbacks) < MaxGlobals
    /\ global_callbacks' = Append(global_callbacks, callback)
    /\ UNCHANGED <<now, watchers, config, running, thread, trigger_count,
                   last_trigger_time, last_known_color, thr, ctl, removed>>
    /\ UNCHANGED <<tvars, returned, capture, matcher, probe, screen>>

\* A start() without the test of running.
start_always(w) ==
    /\ Len(thr) < MaxThreads
    /\ running' = [running EXCEPT ![w] = TRUE]
    /\ thread' = [thread EXCEPT ![w] = Len(thr) + 1]
    /\ thr' = Append(thr, [w |-> w, pc |-> "loop", wake |-> now,
                           current_color |-> NoColor,
                           match |-> NoMatch,
                           event_data |-> NoEvent, calls |-> <<>>,
                           join |-> NoThread, failed |-> FALSE])

\* PersistentPixelWatcher.start
start(w) ==
    IF running[w]
    THEN UNCHANGED <<running, thread, thr>>
    ELSE /\ Len(thr) < MaxThreads
         /\ running' = [running EXCEPT ![w] = TRUE]
         /\ thread' = [thread EXCEPT ![w] = Len(thr) + 1]
         /\ thr' = Append(thr, [w |-> w, pc |-> "loop", wake |-> now,
                                current_color |-> NoColor,
                                match |-> NoMatch,
                                event_data |-> NoEvent, calls |-> <<>>,
                                join |-> NoThread, failed |-> FALSE])

start_watcher(name) ==
    /\ ctl.op = "idle"
    /\ IF watchers[name] # NoWatcher
       THEN start(watchers[name])
       ELSE UNCHANGED <<running, thread, thr>>
    /\ UNCHANGED <<now, watchers, global_callbacks, config, trigger_count,
                   last_trigger_time, last_known_color, ctl, removed>>
    /\ UNCHANGED <<tvars, returned, capture, matcher, probe, screen>>

\* A stop() without the early return on a watcher that is not running.
StopJoins_alive(w) == is_alive(thread[w])

\* PersistentPixelWatcher.stop up to its join: the early return, the write
\* of running, and whether thread.join(timeout=1.0) is entered.
StopJoins(w) == running[w] /\ is_alive(thread[w])

\* A stop() that joins and leaves running as it is.
stop_keep(w) == running' = running

stop(w) ==
    running' = IF running[w] THEN [running EXCEPT ![w] = FALSE] ELSE running

stop_watcher(name) ==
    /\ ctl.op = "idle"
    /\ IF watchers[name] # NoWatcher
       THEN /\ stop(watchers[name])
            /\ ctl' = IF StopJoins(watchers[name])
                      THEN [op |-> "stop", name |-> name,
                            w |-> watchers[name],
                            deadline |-> now + JoinTimeout, rest |-> {}]
                      ELSE ctl
            /\ capture' = stop_cleanup(watchers[name], 0,
                                       running[watchers[name]]
                                       /\ ~StopJoins(watchers[name]))
       ELSE UNCHANGED <<running, ctl, capture, matcher, probe, screen>>
    /\ UNCHANGED <<now, watchers, global_callbacks, config, thread,
                   trigger_count, last_trigger_time, last_known_color, thr, removed>>
    /\ UNCHANGED <<tvars, returned, matcher, probe, screen>>

\* del self.watchers[name], the step of remove_watcher after stop().
DelWatcher(name, w) ==
    /\ watchers' = [watchers EXCEPT ![name] = NoWatcher]
    /\ removed' = [removed EXCEPT ![w] = TRUE]

remove_watcher(name) ==
    /\ ctl.op = "idle"
    /\ IF watchers[name] # NoWatcher
       THEN /\ stop(watchers[name])
            /\ IF StopJoins(watchers[name])
               THEN /\ ctl' = [op |-> "remove", name |-> name,
                               w |-> watchers[name],
                               deadline |-> now + JoinTimeout, rest |-> {}]
                    /\ UNCHANGED <<watchers, removed>>
               ELSE /\ DelWatcher(name, watchers[name])
                    /\ UNCHANGED ctl
            /\ capture' = stop_cleanup(watchers[name], 0,
                                       running[watchers[name]]
                                       /\ ~StopJoins(watchers[name]))
       ELSE UNCHANGED <<running, ctl, watchers, removed, capture, matcher, probe, screen>>
    /\ UNCHANGED <<now, global_callbacks, config, thread, trigger_count,
                   last_trigger_time, last_known_color, thr>>
    /\ UNCHANGED <<tvars, returned, matcher, probe, screen>>

\* join_return as a stop() whose join has no timeout.
join_return_forever ==
    /\ ctl.w # NoWatcher
    /\ ~is_alive(thread[ctl.w])
    /\ ctl' = IF ctl.op = "stop_all"
              THEN [ctl EXCEPT !.w = NoWatcher, !.deadline = 0]
              ELSE Idle
    /\ IF ctl.op = "remove"
       THEN DelWatcher(ctl.name, ctl.w)
       ELSE UNCHANGED <<watchers, removed>>
    /\ capture' = stop_cleanup(ctl.w, 0, TRUE)
    /\ UNCHANGED <<now, global_callbacks, config, running, thread,
                   trigger_count, last_trigger_time, last_known_color, thr>>
    /\ UNCHANGED <<tvars, returned, matcher, probe, screen>>

\* thread.join(timeout=1.0) of the control thread returns: the thread has
\* ended, or the timeout has elapsed. The caller then goes on: stop_watcher
\* returns, remove_watcher deletes the key, stop_all takes its next watcher.
join_return ==
    /\ ctl.w # NoWatcher
    /\ ~is_alive(thread[ctl.w]) \/ now >= ctl.deadline
    /\ ctl' = IF ctl.op = "stop_all"
              THEN [ctl EXCEPT !.w = NoWatcher, !.deadline = 0]
              ELSE Idle
    /\ IF ctl.op = "remove"
       THEN DelWatcher(ctl.name, ctl.w)
       ELSE UNCHANGED <<watchers, removed>>
    /\ capture' = stop_cleanup(ctl.w, 0, TRUE)
    /\ UNCHANGED <<now, global_callbacks, config, running, thread,
                   trigger_count, last_trigger_time, last_known_color, thr>>
    /\ UNCHANGED <<tvars, returned, matcher, probe, screen>>

\* stop_all is entered: the loop over self.watchers.values() begins. The
\* order of the dict is left open.
stop_all ==
    /\ ctl.op = "idle"
    /\ ctl' = [op |-> "stop_all", name |-> "", w |-> NoWatcher, deadline |-> 0,
               rest |-> {watchers[n] : n \in Keys} \ {NoWatcher}]
    /\ UNCHANGED <<now, watchers, global_callbacks, config, running, thread,
                   trigger_count, last_trigger_time, last_known_color, thr,
                   removed, tvars, returned, capture, matcher, probe, screen>>

\* One iteration of the loop of stop_all: watcher.stop() up to its join;
\* with no watcher left, stop_all returns.
stop_all_step ==
    /\ ctl.op = "stop_all"
    /\ ctl.w = NoWatcher
    /\ IF ctl.rest = {}
       THEN ctl' = Idle /\ UNCHANGED <<running, capture, matcher, probe, screen>>
       ELSE \E w \in ctl.rest :
               /\ stop(w)
               /\ capture' = stop_cleanup(w, 0, running[w] /\ ~StopJoins(w))
               /\ ctl' = [ctl EXCEPT
                            !.rest = @ \ {w},
                            !.w = IF StopJoins(w) THEN w ELSE NoWatcher,
                            !.deadline = IF StopJoins(w)
                                         THEN now + JoinTimeout ELSE 0]
    /\ UNCHANGED <<now, watchers, global_callbacks, config, thread,
                   trigger_count, last_trigger_time, last_known_color, thr,
                   removed, tvars, returned, matcher, probe, screen>>

\* The dict get_watcher_status builds for a key of the registry.
status_dict(name) ==
    LET w == watchers[name] IN
    IF config[w].event_type \in TemplateEvents
    THEN [name |-> name, none |-> FALSE, running |-> running[w],
          trigger_count |-> trigger_count[w],
          event_type |-> config[w].event_type,
          enabled |-> config[w].enabled,
          template_present |-> template_present[w],
          last_trigger_time |-> last_trigger_time[w]]
    ELSE [name |-> name, none |-> FALSE, running |-> running[w],
          trigger_count |-> trigger_count[w],
          event_type |-> config[w].event_type,
          enabled |-> config[w].enabled,
          last_trigger_time |-> last_trigger_time[w]]

\* A get_watcher_status that waits until no thread of the watcher is inside
\* its capture call or its callback.
get_watcher_status_waits(name) ==
    /\ \A t \in Threads :
          thr[t].w = watchers[name] => thr[t].pc \notin {"sampling", "callback"}
    /\ returned' =
          IF watchers[name] = NoWatcher
          THEN [name |-> name, none |-> TRUE]
          ELSE status_dict(name)
    /\ UNCHANGED <<now, watchers, global_callbacks, config, running, thread,
                   trigger_count, last_trigger_time, last_known_color, thr,
                   ctl, removed, tvars, capture, matcher, probe, screen>>

\* get_watcher_status: None for a name that is no key, else the dict read
\* from the watcher. It takes no lock and waits for nothing, and any thread
\* of the application can call it.
get_watcher_status(name) ==
    /\ returned' =
          IF watchers[name] = NoWatcher
          THEN [name |-> name, none |-> TRUE]
          ELSE status_dict(name)
    /\ UNCHANGED <<now, watchers, global_callbacks, config, running, thread,
                   trigger_count, last_trigger_time, last_known_color, thr,
                   ctl, removed, tvars, capture, matcher, probe, screen>>

\* get_all_status: get_watcher_status for every key of the registry.
get_all_status ==
    /\ returned' =
          [name |-> "*", none |-> FALSE,
           all |-> [n \in {k \in Keys : watchers[k] # NoWatcher} |->
                       status_dict(n)]]
    /\ UNCHANGED <<now, watchers, global_callbacks, config, running, thread,
                   trigger_count, last_trigger_time, last_known_color, thr,
                   ctl, removed, tvars, capture, matcher, probe, screen>>

\* TransparentVisionController.find_on_screen called by the application
\* itself: capture_screen in the calling thread.
find_on_screen(tid) ==
    /\ ctl.op = "idle"
    /\ capture.local[sct_slot(tid)] = NoHandle => Len(capture.handles) < MaxHandles
    /\ capture' = capture_screen(capture, tid)
    /\ UNCHANGED <<now, watchers, global_callbacks, config, running, thread,
                   trigger_count, last_trigger_time, last_known_color, thr,
                   ctl, removed, tvars, returned, matcher, probe, screen>>

\* The frame of the steps of find_on_screen that touch only the caches.
CacheFrame ==
    UNCHANGED <<now, watchers, global_callbacks, config, running, thread,
                trigger_count, last_trigger_time, last_known_color, thr, ctl,
                removed, tvars, returned, capture, probe, screen>>

\* find_on_screen, entered by thread t: the test template_path not in
\* self.template_cache, and with a cached path the read of the cache.
cache_test(t) ==
    /\ matcher.look[t].pc = "out"
    /\ matcher.look[t].n < MaxLookups
    /\ matcher' = [matcher EXCEPT !.look[t] =
                     [pc |-> IF matcher.template_cache THEN "mask" ELSE "load",
                      template |-> matcher.template_cache, mask |-> FALSE,
                      cached |-> matcher.template_cache,
                      n |-> matcher.look[t].n + 1]]
    /\ CacheFrame

\* A load_template that leaves the mask of the file to a later call.
load_template_nomask(t, rgba) ==
    /\ matcher.look[t].pc = "load"
    /\ matcher.alpha \in {"unknown", rgba}
    /\ matcher' = [matcher EXCEPT !.alpha = rgba,
                                  !.look[t].pc = "store",
                                  !.look[t].template = TRUE]
    /\ CacheFrame

\* TransparentImageMatcher.load_template: cv2.imread of the file; if it has
\* an alpha channel its mask is stored in template_masks; the template is
\* returned. rgba: whether the file has an alpha channel.
load_template(t, rgba) ==
    /\ matcher.look[t].pc = "load"
    /\ matcher.alpha \in {"unknown", rgba}
    /\ matcher' = [matcher EXCEPT !.alpha = rgba,
                                  !.template_masks = @ \/ rgba = "yes",
                                  !.look[t].pc = "store",
                                  !.look[t].template = TRUE]
    /\ CacheFrame

\* self.template_cache[template_path] = template
cache_store(t) ==
    /\ matcher.look[t].pc = "store"
    /\ matcher' = [matcher EXCEPT !.template_cache = TRUE,
                                  !.look[t].pc = "mask"]
    /\ CacheFrame

\* mask = self.image_matcher.get_template_mask(template_path); the lookup
\* is over and the capture follows.
get_template_mask(t) ==
    /\ matcher.look[t].pc = "mask"
    /\ matcher' = [matcher EXCEPT !.look[t].pc = "out",
                                  !.look[t].mask = matcher.template_masks]
    /\ CacheFrame

enable_watcher(name) ==
    /\ ctl.op = "idle"
    /\ config' = IF watchers[name] # NoWatcher
                 THEN [config EXCEPT ![watchers[name]].enabled = TRUE]
                 ELSE config
    /\ UNCHANGED <<now, watchers, global_callbacks, running, thread,
                   trigger_count, last_trigger_time, last_known_color, thr,
                   ctl, removed>>
    /\ UNCHANGED <<tvars, returned, capture, matcher, probe, screen>>

disable_watcher(name) ==
    /\ ctl.op = "idle"
    /\ config' = IF watchers[name] # NoWatcher
                 THEN [config EXCEPT ![watchers[name]].enabled = FALSE]
                 ELSE config
    /\ UNCHANGED <<now, watchers, global_callbacks, running, thread,
                   trigger_count, last_trigger_time, last_known_color, thr,
                   ctl, removed>>
    /\ UNCHANGED <<tvars, returned, capture, matcher, probe, screen>>

-----------------------------------------------------------------------------
\* The configurations an application passes to add_*_watcher.
PixelConfigs ==
    [event_type : {COLOR_MATCH, COLOR_CHANGE}, callback : UserCallbacks,
     cooldown : {0, CooldownC}, trigger_once : BOOLEAN]

\* The steps of the polling threads. Cols: the colours the screen shows.
Poller(Cols) ==
    \E t \in 1..MaxThreads :
        \/ _watch_loop(t)
        \/ \E c \in Cols : get_pixel_color(t, c)
        \/ callback_return(t)
        \/ watch_loop_finally(t)

SelfJoin == \E t \in 1..MaxThreads : self_join_return(t)

Add(Configs, maxw) ==
    \E name \in Names, k \in Configs :
        /\ Len(config) < maxw
        /\ IF k.event_type = COLOR_MATCH
           THEN add_color_watcher(name, k.callback, k.cooldown, k.trigger_once)
           ELSE \E c0 \in Colors :
                   add_change_watcher(name, k.callback, k.cooldown,
                                      k.trigger_once, c0)

StartStop ==
    \/ \E name \in Names : start_watcher(name) \/ stop_watcher(name)
    \/ join_return

Toggle == \E name \in Names : enable_watcher(name) \/ disable_watcher(name)

Remove == \E name \in Names : remove_watcher(name)

AddGlobal == \E cb \in GlobalCallbacks : add_global_callback(cb)

\* One colour-match watcher that fires once (trigger_once), its callback
\* returning or raising; started, stopped, disabled and started again.
OnceConfigs ==
    {k \in PixelConfigs : k.event_type = COLOR_MATCH /\ k.trigger_once
                          /\ k.cooldown = 0}

NextOnce ==
    \/ Tick(MaxTime)
    \/ Poller({Black, Red})
    \/ SelfJoin
    \/ Add(OnceConfigs, 1)
    \/ StartStop
    \/ Toggle

SpecOnce == Init /\ [][NextOnce]_vars

\* One colour-match watcher that keeps firing, with or without a cooldown.
CooldownConfigs ==
    {k \in PixelConfigs : k.event_type = COLOR_MATCH /\ ~k.trigger_once
                          /\ ~k.callback.raises}

NextCooldown ==
    \/ Tick(MaxTime)
    \/ Poller({Black, Red})
    \/ Add(CooldownConfigs, 1)
    \/ StartStop
    \/ Toggle

SpecCooldown == Init /\ [][NextCooldown]_vars

\* The registry: watchers added, started, stopped and removed by name, a
\* name added again while its watcher is still stored.
RegistryConfigs ==
    {k \in PixelConfigs : k.event_type = COLOR_MATCH /\ ~k.trigger_once
                          /\ k.cooldown = 0 /\ ~k.callback.raises}

NextRegistry ==
    \/ Tick(ShortTime)
    \/ Poller({Black, Red})
    \/ Add(RegistryConfigs, MaxWatchers)
    \/ StartStop
    \/ Remove

SpecRegistry == Init /\ [][NextRegistry]_vars

\* One colour-change watcher, its callback returning or raising.
ChangeConfigs ==
    {k \in PixelConfigs : k.event_type = COLOR_CHANGE /\ ~k.trigger_once
                          /\ k.cooldown = 0}

NextChange ==
    \/ Tick(ShortTime)
    \/ Poller(Colors)
    \/ Add(ChangeConfigs, 1)
    \/ StartStop

SpecChange == Init /\ [][NextChange]_vars

\* One colour-match watcher and the global callbacks of its manager; user
\* and global callbacks return or raise.
CallbackConfigs ==
    {k \in PixelConfigs : k.event_type = COLOR_MATCH /\ ~k.trigger_once
                          /\ k.cooldown = 0}

NextCallbacks ==
    \/ Tick(ShortTime)
    \/ Poller({Black, Red})
    \/ Add(CallbackConfigs, 1)
    \/ AddGlobal
    \/ StartStop

SpecCallbacks == Init /\ [][NextCallbacks]_vars

\* The application starts each watcher at most once.
StartOnce ==
    \E name \in Names :
        /\ watchers[name] # NoWatcher
        /\ NumThreads(watchers[name]) = 0
        /\ start_watcher(name)

\* A trigger_once watcher, its callback returning or raising, that is
\* started once and stopped from outside while it stops itself.
NextSelfStop ==
    \/ Tick(ShortTime)
    \/ TickJoin(ShortTime)
    \/ Poller({Black, Red})
    \/ Add(OnceConfigs, 1)
    \/ StartOnce
    \/ \E name \in Names : stop_watcher(name)
    \/ join_return

LiveSelfStop ==
    /\ Init
    /\ [][NextSelfStop]_vars
    /\ WF_vars(Tick(ShortTime) \/ TickJoin(ShortTime))
    /\ WF_vars(Poller({Black, Red}))
    /\ WF_vars(join_return)

\* The same watcher and application under a scheduler that is fair to the
\* control thread only: the polling thread may stay in its capture call or
\* its callback forever.
LiveStop ==
    /\ Init
    /\ [][NextSelfStop]_vars
    /\ WF_vars(Tick(ShortTime) \/ TickJoin(ShortTime))
    /\ WF_vars(join_return)

\* The application of NextSelfStop under any scheduler.
SpecSelfStop == Init /\ [][NextSelfStop]_vars

\* Two colour-match watchers under the keys of the registry, started one by
\* one and stopped together.
AllConfigs ==
    {k \in PixelConfigs : k.event_type = COLOR_MATCH /\ ~k.trigger_once
                          /\ k.cooldown = 0 /\ ~k.callback.raises}

AddKeys(Configs, maxw) ==
    \E name \in Keys, k \in Configs :
        /\ Len(config) < maxw
        /\ watchers[name] = NoWatcher
        /\ add_color_watcher(name, k.callback, k.cooldown, k.trigger_once)

NextStopAll ==
    \/ Tick(ShortTime)
    \/ Poller({Black, Red})
    \/ AddKeys(AllConfigs, MaxWatchers)
    \/ \E name \in Keys : start_watcher(name)
    \/ stop_all
    \/ stop_all_step
    \/ join_return

SpecStopAll == Init /\ [][NextStopAll]_vars

\* One watcher under the key "a", and calls of the manager with the keys
\* "a" and "b": "b" is never a key, "a" is none before the add and after
\* the remove.
NextCalls ==
    \/ Tick(ShortTime)
    \/ Poller({Black, Red})
    \/ Add(AllConfigs, 1)
    \/ \E name \in Keys : start_watcher(name)
    \/ \E name \in Keys : stop_watcher(name)
    \/ \E name \in Keys : remove_watcher(name)
    \/ \E name \in Keys : get_watcher_status(name)
    \/ join_return

SpecCalls == Init /\ [][NextCalls]_vars

\* The configurations an application passes to add_template_watcher.
TemplateConfigs ==
    [event_type : TemplateEvents, callback : UserCallbacks,
     cooldown : {0, CooldownC}, trigger_once : BOOLEAN]

\* The steps of the polling threads of template watchers. Ms: what
\* find_on_screen can return.
TemplatePoller(Ms) ==
    \E t \in 1..MaxThreads :
        \/ _watch_loop(t)
        \/ \E m \in Ms : _check_template(t, m)
        \/ template_trigger_event(t)
        \/ callback_return(t)
        \/ watch_loop_finally(t)

AddTemplate(Configs, maxw) ==
    \E name \in Names, k \in Configs :
        /\ Len(config) < maxw
        /\ add_template_watcher(name, k.event_type, k.callback, DefaultThreshold,
                                k.cooldown, k.trigger_once, MovementThreshold)

\* One template watcher that reports appearances and disappearances, with
\* and without a cooldown.
PresenceConfigs ==
    {k \in TemplateConfigs : k.event_type \in {TEMPLATE_FOUND, TEMPLATE_LOST}
                             /\ ~k.trigger_once /\ ~k.callback.raises}

NextPresence ==
    \/ Tick(PollTime)
    \/ TemplatePoller({NoMatch, P1})
    \/ AddTemplate(PresenceConfigs, 1)
    \/ StartStop

SpecPresence == Init /\ [][NextPresence]_vars

\* One watcher, a pixel watcher or a template watcher, whose status is read
\* while it is stopped, while its loop runs and while stop() waits in its
\* join.
StatusConfigs ==
    {k \in TemplateConfigs : k.event_type = TEMPLATE_FOUND /\ ~k.trigger_once
                             /\ k.cooldown = 0 /\ ~k.callback.raises}

NextStatus ==
    \/ Tick(ShortTime)
    \/ Poller({Black, Red})
    \/ TemplatePoller({NoMatch, P1})
    \/ Add(AllConfigs, 1)
    \/ AddTemplate(StatusConfigs, 1)
    \/ global_callbacks = <<>> /\ AddGlobal
    \/ StartStop
    \/ \E name \in Keys : get_watcher_status(name)
    \/ get_all_status

SpecStatus == Init /\ [][NextStatus]_vars

\* One watcher whose capture can fail: a colour-change watcher on a screen
\* that shows the colour of its baseline, or a template watcher on a screen
\* that shows the template.
FailureConfigs ==
    {k \in PixelConfigs : k.event_type = COLOR_CHANGE /\ ~k.trigger_once
                          /\ k.cooldown = 0 /\ ~k.callback.raises}

FailureTemplateConfigs ==
    {k \in TemplateConfigs : k.event_type \in {TEMPLATE_FOUND, TEMPLATE_LOST}
                             /\ ~k.trigger_once /\ k.cooldown = 0
                             /\ ~k.callback.raises}

CaptureFails ==
    \E t \in 1..MaxThreads :
        get_pixel_color_except(t) \/ find_on_screen_except(t)

NextFailure ==
    \/ Tick(ShortTime)
    \/ Poller({Black, Red})
    \/ TemplatePoller({P1})
    \/ CaptureFails
    \/ \E name \in Names, k \in FailureConfigs :
          /\ Len(config) < 1
          /\ add_change_watcher(name, k.callback, k.cooldown, k.trigger_once, Red)
    \/ AddTemplate(FailureTemplateConfigs, 1)
    \/ StartStop

SpecFailure == Init /\ [][NextFailure]_vars

\* Arguments an application can pass to watch_pixel_color: the defaults, and
\* values outside the documented ranges.
OverTolerance == 300
Tolerances == {DefaultTolerance, OverTolerance}
Intervals == {CheckInterval, -1}
Cooldowns == {0, -1}

\* One colour-match watcher made by watch_pixel_color with any of these
\* arguments, started at once or later.
WatchPixel ==
    \E name \in Names, tol \in Tolerances, ci \in Intervals, cd \in Cooldowns :
        \E auto_start \in BOOLEAN :
            /\ Len(config) < 1
            /\ watch_pixel_color(name, [id |-> "user", raises |-> FALSE],
                                 tol, ci, cd, FALSE, auto_start)

NextWatch ==
    \/ Tick(ShortTime)
    \/ Poller({Black, Red})
    \/ WatchPixel
    \/ StartStop

SpecWatch == Init /\ [][NextWatch]_vars

\* One template watcher, stopped from outside or by itself, and an
\* application that also searches the screen itself: every thread captures
\* through the one ScreenCapture of the controller.
CaptureConfigs ==
    {k \in TemplateConfigs : k.event_type = TEMPLATE_FOUND /\ k.cooldown = 0
                             /\ ~k.callback.raises}

NextCapture ==
    \/ Tick(ShortTime)
    \/ TemplatePoller({NoMatch, P1})
    \/ SelfJoin
    \/ AddTemplate(CaptureConfigs, 1)
    \/ StartStop
    \/ find_on_screen(0)

SpecCapture == Init /\ [][NextCapture]_vars

\* Polling threads that take turns: a thread runs only while no other
\* thread is inside its capture call or its callback.
Scheduled_cooperative(t) ==
    \A u \in Threads : u # t => thr[u].pc \notin {"sampling", "callback"}

\* start() gives every watcher a threading.Thread of its own: a polling
\* thread can run whatever the other threads are doing.
Scheduled(t) == TRUE

\* The steps of the polling threads of the watcher under the key name.
PollerOf(name, Cols) ==
    \E t \in 1..MaxThreads :
        /\ t \in Threads
        /\ thr[t].w = watchers[name]
        /\ Scheduled(t)
        /\ \/ _watch_loop(t)
           \/ \E c \in Cols : get_pixel_color(t, c)
           \/ callback_return(t)
           \/ watch_loop_finally(t)

StartEach ==
    \E name \in Keys :
        /\ watchers[name] # NoWatcher
        /\ NumThreads(watchers[name]) = 0
        /\ start_watcher(name)

\* Two colour-match watchers "a" and "b", each started once, on a screen
\* that shows the colour "b" waits for; the application stops "b" and asks
\* for its status.
NextIndependent ==
    \/ Tick(ShortTime)
    \/ TickJoin(ShortTime)
    \/ PollerOf("a", {Black, Red})
    \/ PollerOf("b", {Red})
    \/ AddKeys(AllConfigs, MaxWatchers)
    \/ StartEach
    \/ stop_watcher("b")
    \/ join_return
    \/ get_watcher_status("b")

\* The scheduler is fair to the thread of "b" and to the application, and
\* time passes; the thread of "a" may stay where it is forever.
LiveIndependent ==
    /\ Init
    /\ [][NextIndependent]_vars
    /\ WF_vars(Tick(ShortTime) \/ TickJoin(ShortTime))
    /\ WF_vars(PollerOf("b", {Red}))
    /\ WF_vars(join_return)

\* The watcher threads of one controller look the same template path up,
\* more than once each, the first lookups at the same time.
NextCache ==
    \E t \in 1..MaxThreads :
        \/ cache_test(t)
        \/ \E rgba \in {"yes", "no"} : load_template(t, rgba)
        \/ cache_store(t)
        \/ get_template_mask(t)

SpecCache == Init /\ [][NextCache]_vars

\* Watchers made by watch_pixel_color and watch_template_found with and
\* without auto_start, then started, stopped, queried and removed by name.
Plain == [id |-> "user", raises |-> FALSE]

WatchAuto ==
    \E name \in Names, auto_start \in BOOLEAN :
        /\ Len(config) < 2
        /\ \/ watch_pixel_color(name, Plain, DefaultTolerance, CheckInterval,
                                0, FALSE, auto_start)
           \/ watch_template_found(name, Plain, CheckInterval, 0, FALSE,
                                   auto_start)

NextAuto ==
    \/ Tick(ShortTime)
    \/ Poller({Red})
    \/ TemplatePoller({P1})
    \/ WatchAuto
    \/ \E name \in Names : start_watcher(name)
    \/ Remove
    \/ join_return
    \/ \E name \in Names : get_watcher_status(name)

SpecAuto == Init /\ [][NextAuto]_vars

\* _colors_match called on any two colours and any tolerance, once in each
\* order of the colours.
ChannelValues == {0, 10, 11, 255}
ProbeColors == [1..3 -> ChannelValues]
ProbeTolerances == {0, 10, 255}

InitColors ==
    /\ Constructed
    /\ \E c1 \in ProbeColors, c2 \in ProbeColors, t \in ProbeTolerances :
          probe = [NoProbe EXCEPT !.color1 = c1, !.color2 = c2, !.tolerance = t]

colors_match_call ==
    /\ ~probe.done
    /\ probe' = [probe EXCEPT
                   !.done = TRUE,
                   !.match = _colors_match(probe.color1, probe.color2,
                                           probe.tolerance),
                   !.swapped = _colors_match(probe.color2, probe.color1,
                                             probe.tolerance)]
    /\ UNCHANGED <<now, watchers, global_callbacks, config, running, thread,
                   trigger_count, last_trigger_time, last_known_color, thr, ctl,
                   removed, tvars, returned, capture, matcher, screen>>

SpecColors == InitColors /\ [][colors_match_call]_vars

\* One template watcher that reports movements.
MovedConfigs ==
    {k \in TemplateConfigs : k.event_type = TEMPLATE_MOVED /\ ~k.trigger_once
                             /\ k.cooldown = 0 /\ ~k.callback.raises}

NextMoved ==
    \/ Tick(MaxTime)
    \/ TemplatePoller({NoMatch, P1, P2})
    \/ AddTemplate(MovedConfigs, 1)
    \/ StartStop

SpecMoved == Init /\ [][NextMoved]_vars

\* One moved watcher and a template that drifts: found at (100,100),
\* (110,100) or (120,100), or not found.
NextDrift ==
    \/ Tick(MaxTime)
    \/ TemplatePoller({NoMatch, P1, P3, P2})
    \/ AddTemplate(MovedConfigs, 1)
    \/ StartStop

SpecDrift == Init /\ [][NextDrift]_vars

\* Template watchers with their own thresholds, below and above the
\* threshold of the matcher, polling one screen whose best match changes.
Thresholds == {60, 90}
Confidences == {70, 85, 95}
Screens == [confidence : Confidences, center : {P1.center}]

\* The game draws a new frame.
show(scr) ==
    /\ scr # screen
    /\ screen' = scr
    /\ UNCHANGED <<now, watchers, global_callbacks, config, running, thread,
                   trigger_count, last_trigger_time, last_known_color, thr, ctl,
                   removed, tvars, returned, capture, matcher, probe>>

ScreenPoller ==
    \E t \in 1..MaxThreads :
        \/ _watch_loop(t)
        \/ _check_template(t, find_best_match_with_mask(screen))
        \/ template_trigger_event(t)
        \/ callback_return(t)
        \/ watch_loop_finally(t)

AddThreshold ==
    \E name \in Keys, th \in Thresholds :
        /\ watchers[name] = NoWatcher
        /\ add_template_watcher(name, TEMPLATE_FOUND, [id |-> "user", raises |-> FALSE],
                                th, 0, FALSE, MovementThreshold)

NextThreshold ==
    \/ Tick(ShortTime)
    \/ \E scr \in Screens : show(scr)
    \/ ScreenPoller
    \/ AddThreshold
    \/ StartEach
    \/ \E name \in Keys : stop_watcher(name)
    \/ join_return

SpecThreshold == Init /\ [][NextThreshold]_vars

-----------------------------------------------------------------------------
\* KeyboardController.press_keys, called once with a list of keys. probe
\* holds the call: its argument, its position, the calls of
\* pyautogui.press that have returned, and what press_keys returned.

KeyNames == {"a", "A", "enter", "invalid_key"}
valid_keys == {"a", "enter"}

\* key.lower()
lower(key) == IF key = "A" THEN "a" ELSE key

_validate_key(key) == lower(key) \in valid_keys

KeyLists == UNION {[1..n -> KeyNames] : n \in 0..MaxKeys}

InitKeys ==
    /\ Constructed
    /\ \E keys \in KeyLists :
          probe = [keys |-> keys, pc |-> "validate", i |-> 1, pressed |-> <<>>,
                   raised |-> FALSE, result |-> "none"]

KeysFrame ==
    UNCHANGED <<now, watchers, global_callbacks, config, running, thread,
                trigger_count, last_trigger_time, last_known_color, thr, ctl,
                removed, tvars, returned, capture, matcher, screen>>

\* A loop that presses each key as soon as it has validated it.
press_keys_validate_lazy ==
    /\ probe.pc = "validate"
    /\ probe' =
          IF probe.i > Len(probe.keys)
          THEN [probe EXCEPT !.pc = "returned", !.result = "True"]
          ELSE IF ~_validate_key(probe.keys[probe.i])
          THEN [probe EXCEPT !.pc = "returned", !.result = "False"]
          ELSE [probe EXCEPT !.i = @ + 1,
                             !.pressed = Append(@, probe.keys[probe.i])]
    /\ KeysFrame

\* One iteration of the first loop of press_keys, or its end.
press_keys_validate ==
    /\ probe.pc = "validate"
    /\ probe' =
          IF probe.i > Len(probe.keys)
          THEN [probe EXCEPT !.pc = "press", !.i = 1]
          ELSE IF ~_validate_key(probe.keys[probe.i])
          THEN [probe EXCEPT !.pc = "returned", !.result = "False"]
          ELSE [probe EXCEPT !.i = @ + 1]
    /\ KeysFrame

\* One iteration of the second loop: pyautogui.press(key) returns, or it
\* raises and the except clause returns False.
press_keys_press(raises) ==
    /\ probe.pc = "press"
    /\ probe.i <= Len(probe.keys)
    /\ probe' =
          IF raises
          THEN [probe EXCEPT !.pc = "returned", !.result = "False",
                             !.raised = TRUE]
          ELSE [probe EXCEPT !.i = @ + 1,
                             !.pressed = Append(@, probe.keys[probe.i])]
    /\ KeysFrame

\* return True after the second loop.
press_keys_return ==
    /\ probe.pc = "press"
    /\ probe.i > Len(probe.keys)
    /\ probe' = [probe EXCEPT !.pc = "returned", !.result = "True"]
    /\ KeysFrame

NextKeys ==
    \/ press_keys_validate
    \/ \E raises \in BOOLEAN : press_keys_press(raises)
    \/ press_keys_return

SpecKeys == InitKeys /\ [][NextKeys]_vars

\* One watcher, pixel or template, with or without a cooldown, whose user
\* callback returns or raises.
CountConfigs ==
    {k \in PixelConfigs : k.event_type = COLOR_MATCH /\ ~k.trigger_once}

CountTemplateConfigs ==
    {k \in TemplateConfigs : k.event_type = TEMPLATE_FOUND /\ ~k.trigger_once}

NextCount ==
    \/ Tick(MaxTime)
    \/ Poller({Black, Red})
    \/ TemplatePoller({NoMatch, P1})
    \/ Add(CountConfigs, 1)
    \/ AddTemplate(CountTemplateConfigs, 1)
    \/ StartStop

SpecCount == Init /\ [][NextCount]_vars

-----------------------------------------------------------------------------
\* Observations used by the claims.

\* The number of start() calls that launched a polling thread for w.
NumStarts(w) == Cardinality({t \in Threads : thr[t].w = w})

\* A thread of w that is between polls: at the loop test or asleep.
BetweenPolls(w) == \E t \in Threads : thr[t].w = w /\ thr[t].pc = "loop"

-----------------------------------------------------------------------------
\* C1: a trigger_once watcher fires once per start: its trigger_count never
\* exceeds the number of times it was started, and once a watcher started
\* once has fired and its thread is back at the loop, running is false.
C1_TriggerOnceStops ==
    \A w \in Objects :
        config[w].trigger_once =>
            /\ trigger_count[w] <= NumStarts(w)
            /\ (NumStarts(w) = 1 /\ trigger_count[w] >= 1 /\ BetweenPolls(w))
                  => ~running[w]

\* C2: with cooldown C > 0 two consecutive triggers of a watcher are at
\* least C apart, and a poll at or after last_trigger_time + C samples and,
\* if the sample qualifies, triggers.
C2_CooldownSpacing ==
    [][\A w \in Objects :
          /\ (config[w].cooldown > 0 /\ trigger_count'[w] > trigger_count[w])
                => now' - last_trigger_time[w] >= config[w].cooldown
          /\ \A t \in Threads :
                (thr[t].w = w /\ config[w].cooldown > 0) =>
                   /\ (/\ thr[t].pc = "loop" /\ thr'[t] # thr[t]
                       /\ running[w] /\ config[w].enabled
                       /\ now >= last_trigger_time[w] + config[w].cooldown)
                         => thr'[t].pc = "sampling"
                   /\ (/\ thr[t].pc = "sampling" /\ thr'[t].pc # "sampling"
                       /\ Qualifies(w, thr'[t].current_color))
                         => trigger_count'[w] = trigger_count[w] + 1]_vars

\* C3: once remove_watcher has returned, the name is no key of the
\* registry and no thread of the removed watcher takes a sample or invokes
\* a callback.
C3_RemovedIsSilent ==
    [][\A w \in Objects :
          removed[w] =>
             /\ \A n \in Names : watchers[n] # w
             /\ \A t \in Threads :
                   thr[t].w = w =>
                      /\ thr'[t].pc = "sampling" => thr[t].pc = "sampling"
                      /\ thr'[t].pc = "callback" => thr[t].pc = "callback"]_vars

\* C4: disabling a running watcher does not end its polling loop: a thread
\* leaves the loop only when running is false.
C4_DisableKeepsLoop ==
    [][\A t \in Threads :
          (thr[t].pc = "loop" /\ thr'[t].pc = "finally") => ~running[thr[t].w]]_vars

\* C5: an add under a name that is already a key leaves the watcher stored
\* for that name unchanged; an add under a fresh name stores a stopped
\* watcher with trigger_count 0.
C5_AddRejectsDuplicate ==
    [][Len(config') > Len(config) =>
          LET n == config'[Len(config')].name IN
          IF watchers[n] # NoWatcher
          THEN watchers'[n] = watchers[n]
          ELSE /\ watchers'[n] = Len(config')
               /\ ~running'[watchers'[n]]
               /\ trigger_count'[watchers'[n]] = 0]_vars

\* The callbacks the claims expect for one event of w: the user callback,
\* then every registered global callback in registration order, all with
\* the event record ev.
ExpectedCalls(w, ev) ==
    [i \in 1..(1 + Len(global_callbacks)) |->
        [cb |-> IF i = 1 THEN config[w].callback ELSE global_callbacks[i - 1],
         event |-> ev]]

\* The step in which thread t returns from the callback of an event.
Dispatched(t) ==
    /\ t \in Threads
    /\ thr[t].pc = "callback"
    /\ thr'[t].pc # "callback"

\* C6: when the user callback raises, every registered global callback is
\* still invoked for the event and the loop keeps polling.
C6_UserRaiseStillFansOut ==
    [][\A t \in Threads :
          (Dispatched(t) /\ config[thr[t].w].callback.raises) =>
             /\ thr'[t].calls = ExpectedCalls(thr[t].w, thr[t].event_data)
             /\ thr'[t].pc = "loop"
             /\ running'[thr[t].w] = running[thr[t].w]]_vars

\* C7: when a global callback raises, the global callbacks after it are
\* still invoked, in order, and the loop goes on: the thread returns to its
\* loop with running unchanged.
C7_GlobalRaiseIsContained ==
    [][\A t \in Threads :
          (/\ Dispatched(t)
           /\ ~config[thr[t].w].callback.raises
           /\ \E i \in 1..Len(global_callbacks) : global_callbacks[i].raises) =>
             /\ thr'[t].calls = ExpectedCalls(thr[t].w, thr[t].event_data)
             /\ thr'[t].pc = "loop"
             /\ running'[thr[t].w] = running[thr[t].w]]_vars

\* C7's case: an event whose second callback, a global one, raised, and
\* whose third was invoked all the same; the thread is back in its loop.
C7_Witness ==
    \E t \in Threads :
        /\ thr[t].pc = "loop"
        /\ running[thr[t].w]
        /\ Len(thr[t].calls) = 3
        /\ thr[t].calls[2].cb.raises
        /\ ~thr[t].calls[3].cb.raises

\* C8: every event is delivered to the user callback first and then to
\* every registered global callback once, in registration order, with the
\* same event record.
C8_FanOutOrder ==
    [][\A t \in Threads :
          Dispatched(t) =>
             thr'[t].calls = ExpectedCalls(thr[t].w, thr[t].event_data)]_vars

\* C9: a colour-change watcher always has a baseline, from construction
\* on; a sample fires iff the sum of the absolute channel differences to
\* the baseline is at least min_change, the event carries baseline and
\* sample, and the baseline moves, to the sample that fired, exactly when
\* the trigger completes.
C9_SlidingBaseline ==
    [][\A w \in Objects :
          config[w].event_type = COLOR_CHANGE =>
             /\ last_known_color[w] \in Colors
             /\ \A t \in Threads :
                   thr[t].w = w =>
                      LET b == last_known_color[w]
                          c == thr'[t].current_color
                          d == Abs(b[1] - c[1]) + Abs(b[2] - c[2])
                                  + Abs(b[3] - c[3])
                      IN
                      /\ (thr[t].pc = "sampling" /\ thr'[t].pc # "sampling") =>
                            /\ (d >= config[w].min_change)
                                  <=> (trigger_count'[w] = trigger_count[w] + 1)
                            /\ (d < config[w].min_change)
                                  <=> (trigger_count'[w] = trigger_count[w])
                            /\ thr'[t].pc = "callback" =>
                                  /\ thr'[t].event_data.previous_color = b
                                  /\ thr'[t].event_data.current_color = c
                            /\ last_known_color'[w] = b
                      /\ Dispatched(t) =>
                            last_known_color'[w] = thr[t].current_color
             /\ last_known_color'[w] # last_known_color[w] =>
                   \E t \in Threads : thr[t].w = w /\ Dispatched(t)]_vars

\* C9's case: a watcher built on black and started once has delivered its
\* second event, red to dim, although dim is within min_change of black.
C9_Witness ==
    \E t \in Threads :
        LET w == thr[t].w IN
        /\ config[w].event_type = COLOR_CHANGE
        /\ NumStarts(w) = 1
        /\ thr[t].calls # <<>>
        /\ thr[t].calls[1].event.trigger_count = 2
        /\ thr[t].calls[1].event.previous_color = Red
        /\ thr[t].calls[1].event.current_color = Dim
        /\ color_diff(Black, Dim) < config[w].min_change
        /\ last_known_color[w] = Dim
        /\ trigger_count[w] = 2

\* C10: a colour-match watcher with cooldown 0 fires on every poll whose
\* sample matches the target within tolerance, whatever the poll before
\* saw; with a cooldown C > 0 it fires at most once per window of C.
C10_LevelTriggered ==
    [][\A w \in Objects :
          config[w].event_type = COLOR_MATCH =>
             /\ \A t \in Threads :
                   (/\ thr[t].w = w
                    /\ config[w].cooldown = 0
                    /\ thr[t].pc = "sampling" /\ thr'[t].pc # "sampling"
                    /\ \A i \in 1..3 :
                          Abs(thr'[t].current_color[i] - config[w].target_color[i])
                             <= config[w].tolerance)
                      => /\ trigger_count'[w] = trigger_count[w] + 1
                         /\ thr'[t].pc = "callback"
             /\ (config[w].cooldown > 0 /\ trigger_count[w] >= 1
                 /\ trigger_count'[w] # trigger_count[w])
                   => /\ trigger_count'[w] = trigger_count[w] + 1
                      /\ last_trigger_time'[w] - last_trigger_time[w]
                            >= config[w].cooldown]_vars

\* The events of w begun so far: those counted, and those whose
\* _trigger_event has not counted yet.
Begun(w) ==
    trigger_count[w]
       + Cardinality({t \in Threads : thr[t].w = w /\ thr[t].pc = "trigger"})

NumFired(w) == Cardinality({i \in 1..Len(observed[w]) : observed[w][i].fired})

\* C11: a found watcher with cooldown 0 fires on exactly the polls that
\* find the template when the poll before (if any) did not; presence is
\* what the last poll saw, false before the first; a poll that does not
\* find the template fires nothing.
C11_FoundOnAppearance ==
    \A w \in Objects :
        (config[w].event_type = TEMPLATE_FOUND /\ config[w].cooldown = 0) =>
           /\ \A i \in 1..Len(observed[w]) :
                 observed[w][i].fired <=>
                    /\ observed[w][i].match # NoMatch
                    /\ i = 1 \/ observed[w][i - 1].match = NoMatch
           /\ template_present[w] <=>
                 /\ observed[w] # <<>>
                 /\ observed[w][Len(observed[w])].match # NoMatch
           /\ Begun(w) = NumFired(w)

\* C11's case: one thread has polled not found, found, found, not found,
\* and the watcher has fired once, on the second poll.
C11_Witness ==
    \E w \in Objects :
        /\ config[w].event_type = TEMPLATE_FOUND
        /\ config[w].cooldown = 0
        /\ NumStarts(w) = 1
        /\ observed[w] = <<[match |-> NoMatch, fired |-> FALSE],
                           [match |-> P1, fired |-> TRUE],
                           [match |-> P1, fired |-> FALSE],
                           [match |-> NoMatch, fired |-> FALSE]>>
        /\ trigger_count[w] = 1
        /\ ~template_present[w]

\* C12: a lost watcher with cooldown 0 fires on exactly the polls that do
\* not find the template when the poll before did; a poll that finds it
\* only sets presence; nothing fires before a poll has found the template.
C12_LostOnDisappearance ==
    \A w \in Objects :
        (config[w].event_type = TEMPLATE_LOST /\ config[w].cooldown = 0) =>
           /\ \A i \in 1..Len(observed[w]) :
                 observed[w][i].fired <=>
                    /\ observed[w][i].match = NoMatch
                    /\ i > 1
                    /\ observed[w][i - 1].match # NoMatch
           /\ template_present[w] <=>
                 /\ observed[w] # <<>>
                 /\ observed[w][Len(observed[w])].match # NoMatch
           /\ Begun(w) = NumFired(w)
           /\ (\A i \in 1..Len(observed[w]) : observed[w][i].match = NoMatch)
                 => trigger_count[w] = 0

\* C12's case: one thread has polled not found, found, not found, and the
\* watcher has fired once, on the third poll.
C12_Witness ==
    \E w \in Objects :
        /\ config[w].event_type = TEMPLATE_LOST
        /\ config[w].cooldown = 0
        /\ NumStarts(w) = 1
        /\ observed[w] = <<[match |-> NoMatch, fired |-> FALSE],
                           [match |-> P1, fired |-> FALSE],
                           [match |-> NoMatch, fired |-> TRUE]>>
        /\ trigger_count[w] = 1
        /\ ~template_present[w]

\* C13: a poll of a moved watcher fires iff it finds the template, the
\* watcher has a last match, and the centres of the last and the new match
\* are at least movement_threshold apart; for a watcher polled by one
\* thread the last match is what the poll before found.
C13_MovedByThreshold ==
    [][\A w \in Objects :
          (config[w].event_type = TEMPLATE_MOVED /\ config[w].cooldown = 0) =>
             /\ \A t \in Threads :
                   (thr[t].w = w /\ thr[t].pc = "sampling"
                    /\ thr'[t].pc # "sampling") =>
                      LET m == thr'[t].match
                          l == last_match[w]
                          far == /\ m # NoMatch
                                 /\ l # NoMatch
                                 /\ (l.center[1] - m.center[1]) * (l.center[1] - m.center[1])
                                    + (l.center[2] - m.center[2]) * (l.center[2] - m.center[2])
                                       >= config[w].movement_threshold
                                            * config[w].movement_threshold
                      IN
                      /\ (thr'[t].pc = "trigger") <=> far
                      /\ far => /\ thr'[t].event_data.match = m
                                /\ thr'[t].event_data.previous_match = l
                      /\ ~far => /\ last_match'[w] = m
                                 /\ trigger_count'[w] = trigger_count[w]
             /\ NumStarts(w) <= 1 =>
                   \A i \in 1..Len(observed[w]) :
                      LET m == observed[w][i].match IN
                      observed[w][i].fired <=>
                         /\ m # NoMatch
                         /\ i > 1
                         /\ observed[w][i - 1].match # NoMatch
                         /\ LET l == observed[w][i - 1].match IN
                            (l.center[1] - m.center[1]) * (l.center[1] - m.center[1])
                            + (l.center[2] - m.center[2]) * (l.center[2] - m.center[2])
                               >= config[w].movement_threshold
                                    * config[w].movement_threshold]_vars

\* C13's case: one thread has found the template at (100,100), at
\* (100,100) and at (120,100) with threshold 15, and the watcher has fired
\* once, on the third poll.
C13_Witness ==
    \E w \in Objects :
        /\ config[w].event_type = TEMPLATE_MOVED
        /\ config[w].movement_threshold = 15
        /\ NumStarts(w) = 1
        /\ observed[w] = <<[match |-> P1, fired |-> FALSE],
                           [match |-> P1, fired |-> FALSE],
                           [match |-> P2, fired |-> TRUE]>>
        /\ trigger_count[w] = 1
        /\ last_match[w] = P2

\* C14: a cooldown suppresses only the trigger: every iteration of the
\* loop of a running, enabled template watcher still observes the screen,
\* inside a cooldown window too.
C14_CooldownStillObserves ==
    [][\A t \in Threads :
          (/\ config[thr[t].w].event_type \in TemplateEvents
           /\ thr[t].pc = "loop" /\ thr'[t] # thr[t]
           /\ running[thr[t].w] /\ config[thr[t].w].enabled)
             => thr'[t].pc = "sampling"]_vars

\* C15: trigger_count never decreases, and the event whose callback begins
\* carries the value trigger_count has at that time, so that the k-th
\* event of a watcher carries k.
C15_EventNumbers ==
    [][\A w \in Objects :
          /\ trigger_count'[w] >= trigger_count[w]
          /\ \A t \in Threads :
                (thr[t].w = w /\ thr[t].pc # "callback"
                 /\ thr'[t].pc = "callback")
                   => /\ thr'[t].event_data.trigger_count = trigger_count'[w]
                      /\ trigger_count'[w] = trigger_count[w] + 1]_vars

\* The control thread is inside the join of a stop().
StopPending == ctl.op = "stop"

\* The callback of a trigger_once watcher is running and will return: the
\* self-stop follows it.
SelfStopComes ==
    \E t \in Threads :
        /\ thr[t].pc = "callback"
        /\ config[thr[t].w].trigger_once
        /\ ~config[thr[t].w].callback.raises

\* No call is pending, every polling thread has ended, no watcher runs.
Quiet ==
    /\ ctl.op = "idle"
    /\ \A t \in Threads : thr[t].pc = "done"
    /\ \A w \in Objects : ~running[w]

\* C16: with a self-stop and an external stop() on one trigger_once
\* watcher, in any order or overlap, both calls return, the polling thread
\* ends and running is false in the end.
C16_StopsDoNotDeadlock == (StopPending \/ SelfStopComes) ~> Quiet

\* C16's case: the external stop() waits in its join while the callback
\* that the self-stop follows is running.
C16_Witness ==
    /\ StopPending
    /\ SelfStopComes
    /\ trigger_count[ctl.w] = 1

\* C17: stop() returns, after its join has ended or timed out, also
\* when the polling thread never leaves its capture call or callback, and
\* running is false when it returns.
C17_StopReturns ==
    /\ StopPending ~> (ctl.op = "idle")
    /\ [][\A w \in Objects :
             (ctl.op = "stop" /\ ctl.w = w /\ ctl'.op = "idle")
                => ~running'[w]]_vars
    /\ [][\A w \in Objects :
             (ctl.op = "idle" /\ ctl'.op = "stop" /\ ctl'.w = w)
                => /\ ~running'[w]
                   /\ ctl'.deadline = now + JoinTimeout]_vars

\* C17's case: stop() has returned after its timeout while the polling
\* thread is still inside its capture call or its callback.
C17_Witness ==
    \E t \in Threads :
        /\ ctl.op = "idle"
        /\ thread[thr[t].w] = t
        /\ NumStarts(thr[t].w) = 1
        /\ thr[t].pc \in {"sampling", "callback"}
        /\ ~running[thr[t].w]

\* C18: stop() on a watcher that is registered and not running (stopped
\* before, stopped by itself after a trigger_once event, or never started)
\* returns at once: no step of the application is such a stop that changes
\* anything, neither a field of a watcher nor the position of the caller,
\* who enters no join.
C18_StopOnStoppedIsNoOp ==
    [][\A name \in Keys :
          (watchers[name] # NoWatcher /\ ~running[watchers[name]])
              => ~stop_watcher(name)]_vars

\* The watcher has stopped itself after its one event, its polling thread is
\* still inside the callback, and the application is free to call stop().
C18_Witness ==
    /\ ctl.op = "idle"
    /\ watchers["a"] # NoWatcher
    /\ ~running[watchers["a"]]
    /\ trigger_count[watchers["a"]] = 1
    /\ is_alive(thread[watchers["a"]])
    /\ ENABLED stop_watcher("a")

\* No watcher of the registry is running.
NoneRunning ==
    \A n \in Keys : watchers[n] # NoWatcher => ~running[watchers[n]]

\* C19: when stop_all returns, every watcher of the registry has running
\* false; and an iteration of stop_all over a registry in which no watcher
\* is running changes no field of any watcher and enters no join, so that a
\* second stop_all, or one on a registry of stopped watchers, only returns.
C19_StopAllStopsAll ==
    [][/\ (ctl.op = "stop_all" /\ ctl'.op = "idle") => NoneRunning'
       /\ (stop_all_step /\ NoneRunning)
            => (running' = running /\ ctl'.w = NoWatcher)]_vars

\* stop_all is about to return over two watchers that were both started and
\* are both stopped now.
C19_Witness ==
    /\ ctl.op = "stop_all"
    /\ ctl.rest = {}
    /\ ctl.w = NoWatcher
    /\ \A n \in Keys :
          /\ watchers[n] # NoWatcher
          /\ thread[watchers[n]] # NoThread
          /\ ~running[watchers[n]]

\* C20: no step of the application is a start_watcher of a running watcher,
\* a stop_watcher of a stopped one, or a start_watcher, stop_watcher or
\* remove_watcher of a name that is no key, that changes anything: the
\* registry, the fields of every watcher and the set of threads stay as they
\* are. get_watcher_status of a name that is no key returns None and changes
\* nothing else.
C20_NoOpCalls ==
    [][\A name \in Keys :
          /\ (watchers[name] # NoWatcher /\ running[watchers[name]])
                => ~start_watcher(name)
          /\ (watchers[name] # NoWatcher /\ ~running[watchers[name]])
                => ~stop_watcher(name)
          /\ watchers[name] = NoWatcher
                => /\ ~start_watcher(name)
                   /\ ~stop_watcher(name)
                   /\ ~remove_watcher(name)
                   /\ get_watcher_status(name)
                        => /\ returned' = [name |-> name, none |-> TRUE]
                           /\ UNCHANGED <<watchers, config, running, thread,
                                          trigger_count, last_trigger_time,
                                          last_known_color, thr, removed>>]_vars

\* The watcher "a" was started, then removed, and the status asked for its
\* name afterwards was None; the application is free to make its next call.
C20_Witness ==
    /\ ctl.op = "idle"
    /\ watchers["a"] = NoWatcher
    /\ Len(removed) = 1
    /\ removed[1]
    /\ thread[1] # NoThread
    /\ returned = [name |-> "a", none |-> TRUE]

\* The fields of every watcher, the registry and the global callbacks.
Stored ==
    <<watchers, global_callbacks, config, running, thread, trigger_count,
      last_trigger_time, last_known_color, removed, template_present,
      last_match>>

\* What a status dict must say about the watcher under the key name.
ReportsCurrent(d, name) ==
    LET w == watchers[name] IN
    /\ d.running = running[w]
    /\ d.trigger_count = trigger_count[w]
    /\ d.last_trigger_time = last_trigger_time[w]
    /\ config[w].event_type \in TemplateEvents
          => d.template_present = template_present[w]

\* C21: get_watcher_status and get_all_status can return in every state of
\* the application, whatever the polling threads and a stop() in its join
\* are doing; what they return for a key is the running flag, the
\* trigger_count and the last_trigger_time the watcher has at the call
\* (and template_present for a template watcher); and the call leaves the
\* registry, the global callbacks, every field of every watcher and every
\* thread as they are.
C21_StatusReadsOnly ==
    /\ [](\A name \in Keys : ENABLED get_watcher_status(name))
    /\ [](ENABLED get_all_status)
    /\ [][\A name \in Keys :
             get_watcher_status(name)
                => /\ UNCHANGED <<Stored, thr, ctl, now>>
                   /\ watchers[name] # NoWatcher
                         => ReportsCurrent(returned', name)]_vars
    /\ [][get_all_status
             => /\ UNCHANGED <<Stored, thr, ctl, now>>
                /\ \A name \in Keys :
                      watchers[name] # NoWatcher
                         => ReportsCurrent(returned'.all[name], name)]_vars

\* The status of a running template watcher that has fired once was read
\* while its polling thread is inside the callback.
C21_Witness ==
    /\ watchers["a"] # NoWatcher
    /\ config[watchers["a"]].event_type = TEMPLATE_FOUND
    /\ \E t \in Threads : thr[t].w = watchers["a"] /\ thr[t].pc = "callback"
    /\ returned.name = "a"
    /\ ~returned.none
    /\ returned.running
    /\ returned.trigger_count = 1
    /\ returned.template_present
    /\ returned = status_dict("a")

\* C22: a poll whose capture or matching call failed fires no event: no
\* polling thread is on its way to the callback, or inside it, on a tick
\* whose capture failed.
C22_FailedTickIsSilent ==
    \A t \in Threads : thr[t].failed => thr[t].pc \notin {"trigger", "callback"}

\* C23: every stored watcher has check_interval > 0, cooldown >= 0 and, for
\* a pixel watcher, a tolerance within 0..255; no polling thread belongs to
\* a watcher outside these ranges.
C23_StoredConfigsInRange ==
    \A w \in Objects :
        /\ config[w].check_interval > 0
        /\ config[w].cooldown >= 0
        /\ config[w].event_type \notin TemplateEvents
              => config[w].tolerance \in 0..255

\* C24: once the polling thread of a template watcher has ended, every
\* capture handle that thread created is closed.
C24_HandleReleasedAtExit ==
    \A t \in Threads :
        (thr[t].pc = "done" /\ config[thr[t].w].event_type \in TemplateEvents)
            => \A h \in 1..Len(capture.handles) :
                  capture.handles[h].creator = t => ~capture.handles[h].open

\* C25: every capture handle is used by the thread that created it and by
\* no other thread, and the handle a thread finds in its slot is one it
\* created itself.
C25_HandlePerThread ==
    /\ \A h \in 1..Len(capture.handles) :
          capture.handles[h].users \subseteq {capture.handles[h].creator}
    /\ \A tid \in 0..MaxThreads :
          capture.local[tid] # NoHandle
             => capture.handles[capture.local[tid]].creator = tid

\* The application and two polling threads have each captured the screen,
\* each through a handle of its own.
C25_Witness ==
    /\ \A tid \in 0..2 :
          \E h \in 1..Len(capture.handles) :
              /\ capture.handles[h].creator = tid
              /\ capture.handles[h].users = {tid}
    /\ Len(capture.handles) >= 3

\* The watcher under "b" has been started and not stopped since.
BRuns ==
    /\ watchers["b"] # NoWatcher
    /\ running[watchers["b"]]
    /\ trigger_count[watchers["b"]] = 0

BTriggeredOrStopped ==
    /\ watchers["b"] # NoWatcher
    /\ trigger_count[watchers["b"]] >= 1 \/ ~running[watchers["b"]]

\* C26: whatever the thread of "a" does, and also if it never leaves its
\* capture call or its callback, the running watcher "b" polls and fires
\* on the colour it waits for, a stop of "b" returns, and the status of "b"
\* can be read in every state.
C26_WatchersIndependent ==
    /\ BRuns ~> BTriggeredOrStopped
    /\ (ctl.op = "stop") ~> (ctl.op = "idle")
    /\ [](ENABLED get_watcher_status("b"))

\* The thread of "a" is still inside its first capture call, while "b" has
\* fired, was stopped, its thread has ended, and its status was read.
C26_Witness ==
    /\ watchers["a"] # NoWatcher
    /\ watchers["b"] # NoWatcher
    /\ running[watchers["a"]]
    /\ trigger_count[watchers["a"]] = 0
    /\ \E t \in Threads : thr[t].w = watchers["a"] /\ thr[t].pc = "sampling"
    /\ trigger_count[watchers["b"]] >= 1
    /\ ~running[watchers["b"]]
    /\ ~is_alive(thread[watchers["b"]])
    /\ ctl.op = "idle"
    /\ returned.name = "b"
    /\ ~returned.none
    /\ ~returned.running

\* A lookup of thread t is over.
LookedUp(t) == matcher.look[t].pc = "out" /\ matcher.look[t].n >= 1

NeverStarted(w) == thread[w] = NoThread

\* C28: watch_pixel_color and watch_template_found with auto_start leave
\* the name registered with a running watcher that has a live polling
\* thread; without auto_start they leave it registered with a stopped
\* watcher. A watcher that was never started is not running, has fired
\* nothing and has no polling thread; its status says so; and
\* remove_watcher deletes its key at once, without a join.
C28_AutoStart ==
    /\ [](\A w \in Objects :
             NeverStarted(w) => /\ ~running[w]
                                /\ trigger_count[w] = 0
                                /\ NumThreads(w) = 0)
    /\ [][\A name \in Names, auto_start \in BOOLEAN :
             (\/ watch_pixel_color(name, Plain, DefaultTolerance,
                                   CheckInterval, 0, FALSE, auto_start)
              \/ watch_template_found(name, Plain, CheckInterval, 0, FALSE,
                                      auto_start))
                => /\ watchers'[name] = Len(config')
                   /\ running'[watchers'[name]] = auto_start
                   /\ auto_start
                         => /\ thread'[watchers'[name]] = Len(thr')
                            /\ thr'[Len(thr')].w = watchers'[name]
                            /\ thr'[Len(thr')].pc # "done"
                   /\ ~auto_start => thr' = thr]_vars
    /\ [][\A name \in Names :
             (watchers[name] # NoWatcher /\ NeverStarted(watchers[name]))
                => /\ remove_watcher(name)
                      => (watchers'[name] = NoWatcher /\ ctl' = Idle)
                   /\ get_watcher_status(name)
                      => (~returned'.running /\ returned'.trigger_count = 0)]_vars

\* A watcher made without auto_start was removed without ever having been
\* started, after its status was read; a second watcher made with
\* auto_start is running under the name.
C28_Witness ==
    /\ Len(config) = 2
    /\ removed[1]
    /\ NeverStarted(1)
    /\ watchers["a"] = 2
    /\ running[2]
    /\ is_alive(thread[2])
    /\ returned.name = "a"
    /\ ~returned.none
    /\ ~returned.running

\* C29: _colors_match(c1, c2, t) is true exactly if on every channel
\* neither colour exceeds the other by more than t, and it gives the same
\* answer with the colours exchanged.
C29_ColorsMatch ==
    probe.done =>
        /\ probe.match <=>
              \A i \in 1..3 :
                  /\ probe.color1[i] - probe.color2[i] <= probe.tolerance
                  /\ probe.color2[i] - probe.color1[i] <= probe.tolerance
        /\ probe.match = probe.swapped

\* Two different colours match with a channel exactly at the tolerance, the
\* first colour below the second on it.
C29_Witness ==
    /\ probe.done
    /\ probe.match
    /\ probe.tolerance = 10
    /\ \E i \in 1..3 : probe.color2[i] - probe.color1[i] = 10
    /\ \E i \in 1..3 : probe.color1[i] = 255

\* The polling threads of watcher w that have not ended.
LiveThreads(w) == {t \in Threads : thr[t].w = w /\ thr[t].pc # "done"}

\* C30: at most one polling thread of a watcher is alive at any time.
C30_OnePollingThread ==
    \A w \in Objects : Cardinality(LiveThreads(w)) <= 1

\* The step is a stop() of watcher w: one called through the manager, or
\* the one _trigger_event makes for a trigger_once watcher.
StopCalled(w) ==
    \/ \E name \in Keys :
          /\ watchers[name] = w
          /\ stop_watcher(name) \/ remove_watcher(name)
    \/ ctl.op = "stop_all" /\ stop_all_step
    \/ \E t \in Threads :
          /\ thr[t].w = w
          /\ thr[t].pc = "callback"
          /\ config[w].trigger_once
          /\ callback_return(t)

\* C31: the running flag of an enabled watcher goes from true to false only
\* in a stop() of that watcher, called from outside or by the watcher itself
\* after a trigger_once event.
C31_RunningUntilStopped ==
    [][\A w \in Objects :
          (running[w] /\ config[w].enabled /\ ~running'[w]) => StopCalled(w)]_vars

\* C32: every watcher that is running with a live polling thread is stored
\* in the registry under some name.
C32_NoOrphanLoop ==
    \A t \in Threads :
        (thr[t].pc # "done" /\ running[thr[t].w])
            => \E n \in Keys : watchers[n] = thr[t].w

\* C33: a trigger_once watcher whose user callback raises fires at most
\* once, and once its thread is back from that event running is false.
C33_RaisingOnceStops ==
    \A w \in Objects :
        (config[w].trigger_once /\ config[w].callback.raises) =>
            /\ trigger_count[w] <= 1
            /\ (trigger_count[w] >= 1 /\ BetweenPolls(w)) => ~running[w]

\* No thread of w is inside a poll iteration: none is in its capture call,
\* its trigger bookkeeping, its callback or the stop() that follows it.
NoPollInFlight(w) ==
    \A t \in Threads :
        thr[t].w = w => thr[t].pc \in {"loop", "finally", "done"}

\* C34: a loop test made while enabled is false begins no poll; and while a
\* watcher stays disabled with no iteration in flight that began before the
\* disable, its trigger_count and last_trigger_time do not change and no
\* thread of it enters a capture call or a callback.
C34_DisabledIsSilent ==
    [][\A w \in Objects :
          /\ \A t \in Threads :
                (thr[t].w = w /\ thr[t].pc = "loop" /\ ~config[w].enabled)
                   => thr'[t].pc \in {"loop", "finally"}
          /\ (~config[w].enabled /\ ~config'[w].enabled /\ NoPollInFlight(w))
                => /\ trigger_count'[w] = trigger_count[w]
                   /\ last_trigger_time'[w] = last_trigger_time[w]
                   /\ NoPollInFlight(w)']_vars

\* A watcher that has fired was disabled while running, and its thread has
\* made its first loop test since: it begins no poll.
C34_Witness ==
    \E t \in Threads :
        /\ thr[t].pc = "finally"
        /\ ~config[thr[t].w].enabled
        /\ running[thr[t].w]
        /\ trigger_count[thr[t].w] >= 1

\* No thread of w is between the decision to fire and the return of the
\* callback.
NoEventInFlight(w) ==
    \A t \in Threads :
        thr[t].w = w => thr[t].pc \notin {"trigger", "callback", "join"}

\* C35: for a moved watcher polled by one thread, last_match and presence
\* are those of the latest poll, found or not, whether it fired or not; so
\* in a run of polls that each find the template less than
\* movement_threshold from where the poll before found it, none fires,
\* however far the last is from the first.
C35_MovedFromPreviousPoll ==
    \A w \in Objects :
        (config[w].event_type = TEMPLATE_MOVED /\ NumStarts(w) <= 1) =>
           /\ (NoEventInFlight(w) /\ observed[w] # <<>>) =>
                 LET m == observed[w][Len(observed[w])].match IN
                 /\ last_match[w] = m
                 /\ template_present[w] = (m # NoMatch)
           /\ \A i \in 1..Len(observed[w]) : \A j \in i..Len(observed[w]) :
                 (/\ \A k \in i..j : observed[w][k].match # NoMatch
                  /\ \A k \in i..(j - 1) :
                        Dist2(observed[w][k].match.center,
                              observed[w][k + 1].match.center)
                           < config[w].movement_threshold
                               * config[w].movement_threshold)
                    => \A k \in (i + 1)..j : ~observed[w][k].fired

\* C35's case: with threshold 15 one thread has found the template at
\* (100,100), (110,100) and (120,100); the last is 20 from the first and
\* nothing has fired.
C35_Witness ==
    \E w \in Objects :
        /\ config[w].event_type = TEMPLATE_MOVED
        /\ config[w].movement_threshold = 15
        /\ NumStarts(w) = 1
        /\ observed[w] = <<[match |-> P1, fired |-> FALSE],
                           [match |-> P3, fired |-> FALSE],
                           [match |-> P2, fired |-> FALSE]>>
        /\ trigger_count[w] = 0
        /\ last_match[w] = P2

\* C36: a poll of a template watcher finds the template exactly when the
\* best match on the screen has a confidence of at least the threshold of
\* that watcher's own configuration.
C36_OwnThreshold ==
    [][\A t \in Threads :
          (/\ config[thr[t].w].event_type \in TemplateEvents
           /\ thr[t].pc = "sampling" /\ thr'[t].pc # "sampling"
           /\ ~thr[t].failed)
             => ((thr'[t].match # NoMatch)
                    <=> screen.confidence >= config[thr[t].w].threshold)]_vars

\* C37: a poll of a moved watcher that does not find the template fires
\* nothing, clears last_match and sets template_present to false, and a poll
\* made while last_match is clear fires nothing; so for a watcher polled by
\* one thread the poll after a not-found poll never fires, wherever it
\* finds the template.
C37_LostClearsLastMatch ==
    [][\A w \in Objects :
          config[w].event_type = TEMPLATE_MOVED =>
             /\ \A t \in Threads :
                   (thr[t].w = w /\ thr[t].pc = "sampling"
                    /\ thr'[t].pc # "sampling") =>
                      /\ thr'[t].match = NoMatch =>
                            /\ last_match'[w] = NoMatch
                            /\ ~template_present'[w]
                            /\ thr'[t].pc # "trigger"
                      /\ last_match[w] = NoMatch => thr'[t].pc # "trigger"
             /\ NumStarts(w)' <= 1 =>
                   \A i \in 2..Len(observed'[w]) :
                      observed'[w][i - 1].match = NoMatch
                         => ~observed'[w][i].fired]_vars

\* C37's case: with threshold 15 one thread has found the template at
\* (100,100), then not at all, then at (120,100), 20 from where it was, and
\* nothing has fired.
C37_Witness ==
    \E w \in Objects :
        /\ config[w].event_type = TEMPLATE_MOVED
        /\ config[w].movement_threshold = 15
        /\ NumStarts(w) = 1
        /\ observed[w] = <<[match |-> P1, fired |-> FALSE],
                           [match |-> NoMatch, fired |-> FALSE],
                           [match |-> P2, fired |-> FALSE]>>
        /\ trigger_count[w] = 0
        /\ last_match[w] = P2

\* Thread t begins an invocation of the callback of its watcher.
CallbackBegins(t) ==
    /\ t \in Threads
    /\ thr[t].pc # "callback"
    /\ thr'[t].pc = "callback"

\* C38: the step that begins a callback invocation has incremented
\* trigger_count and set last_trigger_time to the current time; the return
\* of the callback, raising or not, changes neither; trigger_count changes
\* in no other step, so it is the number of invocations begun; and after an
\* event, within the cooldown, a loop test begins no poll, whether the
\* callback raised or not.
C38_CountedBeforeCallback ==
    [][\A w \in Objects :
          /\ \A t \in Threads :
                thr[t].w = w =>
                   /\ CallbackBegins(t) =>
                         /\ trigger_count'[w] = trigger_count[w] + 1
                         /\ last_trigger_time'[w] = now
                   /\ Dispatched(t) =>
                         /\ trigger_count'[w] = trigger_count[w]
                         /\ last_trigger_time'[w] = last_trigger_time[w]
                   /\ (/\ thr[t].pc = "loop"
                       /\ config[w].cooldown > 0
                       /\ trigger_count[w] >= 1
                       /\ now - last_trigger_time[w] < config[w].cooldown)
                         => thr'[t].pc # "sampling"
          /\ trigger_count'[w] # trigger_count[w]
                => \E t \in Threads : thr[t].w = w /\ CallbackBegins(t)]_vars

\* C38's case: the callback of a watcher with a cooldown has raised on its
\* first event; the event is counted and the thread, back at its loop test,
\* is inside the cooldown window.
C38_Witness ==
    \E t \in Threads :
        LET w == thr[t].w IN
        /\ config[w].callback.raises
        /\ config[w].cooldown > 0
        /\ thr[t].pc = "loop"
        /\ thr[t].calls # <<>>
        /\ trigger_count[w] = 1
        /\ ~_should_check(w)

\* The control thread starts or stops w, or the join of a stop returns.
Restarts(w) ==
    \/ \E name \in Keys :
          /\ watchers[name] = w
          /\ start_watcher(name) \/ stop_watcher(name)
    \/ ctl.w = w /\ join_return

\* C39: start and stop leave trigger_count, last_trigger_time, the change
\* baseline, template_present and last_match of the watcher as they are;
\* and a trigger_once watcher has fired at most once for each start.
C39_RestartKeepsState ==
    [][\A w \in Objects :
          /\ Restarts(w) =>
                /\ trigger_count'[w] = trigger_count[w]
                /\ last_trigger_time'[w] = last_trigger_time[w]
                /\ last_known_color'[w] = last_known_color[w]
                /\ template_present'[w] = template_present[w]
                /\ last_match'[w] = last_match[w]
          /\ config[w].trigger_once => trigger_count'[w] <= NumStarts(w)']_vars

\* The list passed to press_keys holds a key that is not valid.
AnyInvalid == \E i \in 1..Len(probe.keys) : ~_validate_key(probe.keys[i])

\* C40: when press_keys has returned: if a key of the list is invalid, no
\* key has been pressed and the result is False; if all are valid, the keys
\* pressed are the list, each once and in order, and the result is True.
C40_PressKeys ==
    probe.pc = "returned" =>
       IF AnyInvalid
       THEN probe.pressed = <<>> /\ probe.result = "False"
       ELSE probe.pressed = probe.keys /\ probe.result = "True"

\* C40, amended: no key is pressed before every key has been validated, and
\* the keys pressed are always an initial part of the list; when press_keys
\* has returned: with an invalid key nothing has been pressed and the
\* result is False; with all keys valid, either every call of
\* pyautogui.press returned, the keys pressed are the list and the result
\* is True, or a call raised, the keys before it have been pressed and the
\* result is False.
C40_PressKeysOrFail ==
    /\ probe.pc = "validate" => probe.pressed = <<>>
    /\ Len(probe.pressed) <= Len(probe.keys)
    /\ \A i \in 1..Len(probe.pressed) : probe.pressed[i] = probe.keys[i]
    /\ probe.pc = "returned" =>
          IF AnyInvalid
          THEN probe.pressed = <<>> /\ probe.result = "False" /\ ~probe.raised
          ELSE \/ /\ ~probe.raised
                  /\ probe.pressed = probe.keys
                  /\ probe.result = "True"
               \/ /\ probe.raised
                  /\ Len(probe.pressed) < Len(probe.keys)
                  /\ probe.result = "False"

\* C40's case: press_keys has returned False for a list whose second key
\* is invalid, and not even the valid first key has been pressed.
C40_Witness ==
    /\ probe.pc = "returned"
    /\ probe.result = "False"
    /\ probe.keys = <<"a", "invalid_key", "enter">>
    /\ probe.pressed = <<>>

====
